---------------------------- MODULE Spec2Model ----------------------------
(***************************************************************************)
(* Model of csv2rdf.py: the CSV -> RDF transformation csv_to_rdf and its   *)
(* helpers.                                                                *)
(*                                                                         *)
(* Text is a sequence of symbols, one symbol per character.  A symbol      *)
(* longer than one character abbreviates a fixed piece of text that the    *)
(* program only ever copies (a namespace IRI, a column name); "ntilde" and *)
(* "euro" stand for the single characters U+00F1 and U+20AC.  NoneVal is   *)
(* Python's None.                                                          *)
(***************************************************************************)
EXTENDS Integers, Sequences, FiniteSets, TLC

NoneVal == <<"<None>">>

(***************************************************************************)
(* Character classes.                                                      *)
(***************************************************************************)
\* NFKD decomposition of a character, restricted to its ASCII part
\* variant: an accented letter is dropped whole, base letter included
AsciiOfDropAccented(c) == IF c \in {"ntilde", "euro"} THEN <<>> ELSE <<c>>
AsciiOf(c) == IF c = "ntilde" THEN <<"n">>
              ELSE IF c = "euro" THEN <<>>
              ELSE <<c>>

\* ASCII characters matched by \W ("_" is a word character)
Punct == {" ", "\t", ";", ",", "|", "!", ":", "/", ".", "-", "+", "#", "{", "}"}
IsNonWord(c) == c \in Punct

(***************************************************************************)
(* Generic text helpers.                                                   *)
(***************************************************************************)
\* the characters str.strip() removes
Whitespace == {" ", "\t"}

\* str.lstrip(chars) / str.rstrip(chars), chars given as a set
RECURSIVE LStripBy(_, _)
LStripBy(s, chars) ==
    IF s = <<>> THEN <<>>
    ELSE IF Head(s) \in chars THEN LStripBy(Tail(s), chars) ELSE s

RECURSIVE RStripBy(_, _)
RStripBy(s, chars) ==
    IF s = <<>> THEN <<>>
    ELSE IF s[Len(s)] \in chars THEN RStripBy(SubSeq(s, 1, Len(s) - 1), chars) ELSE s

\* str.strip()
Strip(s) == RStripBy(LStripBy(s, Whitespace), Whitespace)

\* str.startswith(p)
StartsWith(s, p) == Len(s) >= Len(p) /\ SubSeq(s, 1, Len(p)) = p

\* position of the first occurrence of character c in s, 0 when absent
RECURSIVE FindChar(_, _, _)
FindChar(s, c, i) ==
    IF i > Len(s) THEN 0
    ELSE IF s[i] = c THEN i ELSE FindChar(s, c, i + 1)

(***************************************************************************)
(* safe  (csv2rdf.py 83-86)                                                *)
(***************************************************************************)
\* unicodedata.normalize("NFKD", text).encode("ascii", "ignore").decode()
RECURSIVE ToAscii(_)
ToAscii(s) == IF s = <<>> THEN <<>> ELSE AsciiOf(Head(s)) \o ToAscii(Tail(s))

\* re.sub(r"\W+", "_", txt): every maximal run of non-word characters -> "_"
RECURSIVE SubNonWord(_, _)
SubNonWord(s, inRun) ==
    IF s = <<>> THEN <<>>
    ELSE IF IsNonWord(Head(s))
         THEN (IF inRun THEN <<>> ELSE <<"_">>) \o SubNonWord(Tail(s), TRUE)
         ELSE <<Head(s)>> \o SubNonWord(Tail(s), FALSE)

\* variant: the underscores trimmed before the substitution, not after
safe_trim_first(text) ==
    SubNonWord(RStripBy(LStripBy(Strip(ToAscii(text)), {"_"}), {"_"}), FALSE)

safe(text) ==
    LET txt == ToAscii(text)
        sub == SubNonWord(Strip(txt), FALSE)
    IN  RStripBy(LStripBy(sub, {"_"}), {"_"})

(***************************************************************************)
(* split_cell  (csv2rdf.py 89-93)                                          *)
(***************************************************************************)
\* str.split(sep) for a non-empty separator: the pieces, empty ones included
RECURSIVE StrSplit(_, _, _)
StrSplit(s, sep, cur) ==
    IF s = <<>> THEN <<cur>>
    ELSE IF StartsWith(s, sep)
         THEN <<cur>> \o StrSplit(SubSeq(s, Len(sep) + 1, Len(s)), sep, <<>>)
         ELSE StrSplit(Tail(s), sep, Append(cur, Head(s)))

RECURSIVE StripKeepNonEmpty(_)
StripKeepNonEmpty(pieces) ==
    IF pieces = <<>> THEN <<>>
    ELSE (IF Strip(Head(pieces)) # <<>> THEN <<Strip(Head(pieces))>> ELSE <<>>)
         \o StripKeepNonEmpty(Tail(pieces))

\* variant: the pieces trimmed but the empty ones kept
split_cell_keep_empty(cell, sep) ==
    IF sep = <<>> THEN <<Strip(cell)>>
    ELSE [i \in 1..Len(StrSplit(cell, sep, <<>>)) |-> Strip(StrSplit(cell, sep, <<>>)[i])]

split_cell(cell, sep) ==
    IF sep = <<>> THEN <<Strip(cell)>>
    ELSE StripKeepNonEmpty(StrSplit(cell, sep, <<>>))

(***************************************************************************)
(* expand  (csv2rdf.py 96-101)                                             *)
(***************************************************************************)
\* variant: pref.get(pre, "") -- an unknown prefix is dropped
expand_drop_unknown(curie, pref) ==
    LET i == FindChar(curie, ":", 1)
    IN  IF i > 0
        THEN (IF SubSeq(curie, 1, i - 1) \in DOMAIN pref
              THEN pref[SubSeq(curie, 1, i - 1)] ELSE <<>>)
             \o SubSeq(curie, i + 1, Len(curie))
        ELSE curie

\* pref is a function from prefix text to namespace text
expand(curie, pref) ==
    LET i == FindChar(curie, ":", 1)
    IN  IF i > 0
        THEN LET pre == SubSeq(curie, 1, i - 1)
                 loc == SubSeq(curie, i + 1, Len(curie))
             IN  (IF pre \in DOMAIN pref THEN pref[pre] ELSE pre) \o loc
        ELSE curie

(***************************************************************************)
(* infer_datatype  (csv2rdf.py 104-117)                                    *)
(***************************************************************************)
Digits == {"0", "1", "2", "3", "4", "5", "6", "7", "8", "9"}
DigitVal == [d \in Digits |->
               CASE d = "0" -> 0 [] d = "1" -> 1 [] d = "2" -> 2 [] d = "3" -> 3
                 [] d = "4" -> 4 [] d = "5" -> 5 [] d = "6" -> 6 [] d = "7" -> 7
                 [] d = "8" -> 8 [] d = "9" -> 9]

AllDigits(s) == s # <<>> /\ \A i \in 1..Len(s) : s[i] \in Digits

RECURSIVE NumVal(_)
NumVal(s) == IF s = <<>> THEN 0 ELSE 10 * NumVal(SubSeq(s, 1, Len(s) - 1)) + DigitVal[s[Len(s)]]

\* re.fullmatch(r"-?\d+", v)
IsInteger(v) ==
    LET u == IF v # <<>> /\ Head(v) = "-" THEN Tail(v) ELSE v IN AllDigits(u)

\* re.fullmatch(r"-?\d+\.\d+", v)
IsDecimal(v) ==
    LET u == IF v # <<>> /\ Head(v) = "-" THEN Tail(v) ELSE v
        i == FindChar(u, ".", 1)
    IN  i > 0 /\ AllDigits(SubSeq(u, 1, i - 1)) /\ AllDigits(SubSeq(u, i + 1, Len(u)))

\* str.lower() on the letters of the model's alphabet
LowerMap == [A |-> "a", B |-> "b", C |-> "c", D |-> "d", E |-> "e", F |-> "f",
             G |-> "g", H |-> "h", I |-> "i", J |-> "j", K |-> "k", L |-> "l",
             M |-> "m", N |-> "n", O |-> "o", P |-> "p", Q |-> "q", R |-> "r",
             S |-> "s", T |-> "t", U |-> "u", V |-> "v", W |-> "w", X |-> "x",
             Y |-> "y", Z |-> "z"]
Lower(s) == [i \in 1..Len(s) |-> IF s[i] \in DOMAIN LowerMap THEN LowerMap[s[i]] ELSE s[i]]

IsBoolean(v) == Lower(v) \in {<<"t", "r", "u", "e">>, <<"f", "a", "l", "s", "e">>}

\* datetime.fromisoformat(v) followed by the test of line 115, for the forms
\* YYYY-MM-DD and YYYY-MM-DD*HH[:MM[:SS]] (* is any one character); fractions
\* of a second, UTC offsets and the basic format are outside the alphabet of
\* the inputs.  The result is "date" when the time part is absent or
\* midnight, "dateTime" otherwise, "ValueError" when v does not parse
DaysInMonth(y, m) ==
    IF m = 2 THEN (IF (y % 4 = 0 /\ y % 100 # 0) \/ y % 400 = 0 THEN 29 ELSE 28)
    ELSE IF m \in {4, 6, 9, 11} THEN 30 ELSE 31

IsIsoDate(d) ==
    /\ Len(d) = 10
    /\ d[5] = "-" /\ d[8] = "-"
    /\ AllDigits(SubSeq(d, 1, 4)) /\ AllDigits(SubSeq(d, 6, 7)) /\ AllDigits(SubSeq(d, 9, 10))
    /\ NumVal(SubSeq(d, 1, 4)) >= 1
    /\ NumVal(SubSeq(d, 6, 7)) \in 1..12
    /\ NumVal(SubSeq(d, 9, 10)) \in 1..DaysInMonth(NumVal(SubSeq(d, 1, 4)), NumVal(SubSeq(d, 6, 7)))

IsIsoTime(t) ==
    /\ Len(t) \in {2, 5, 8}
    /\ AllDigits(SubSeq(t, 1, 2)) /\ NumVal(SubSeq(t, 1, 2)) \in 0..23
    /\ Len(t) >= 5 => (t[3] = ":" /\ AllDigits(SubSeq(t, 4, 5)) /\ NumVal(SubSeq(t, 4, 5)) \in 0..59)
    /\ Len(t) = 8 => (t[6] = ":" /\ AllDigits(SubSeq(t, 7, 8)) /\ NumVal(SubSeq(t, 7, 8)) \in 0..59)

IsMidnight(t) == \A i \in 1..Len(t) : t[i] \in {"0", ":"}

fromisoformat(v) ==
    IF IsIsoDate(v) THEN "date"
    ELSE IF Len(v) \in {13, 16, 19} /\ IsIsoDate(SubSeq(v, 1, 10))
            /\ IsIsoTime(SubSeq(v, 12, Len(v)))
         THEN (IF IsMidnight(SubSeq(v, 12, Len(v))) THEN "date" ELSE "dateTime")
         ELSE "ValueError"

\* rdflib namespace XSD
XSD_NS == <<"http://www.w3.org/2001/XMLSchema#">>

\* variant: a value with a time part is a date-time, midnight included
infer_datatype_time_is_datetime(value) ==
    LET v == Strip(value)
    IN  IF IsInteger(v) THEN XSD_NS \o <<"integer">>
        ELSE IF IsDecimal(v) THEN XSD_NS \o <<"decimal">>
        ELSE IF IsBoolean(v) THEN XSD_NS \o <<"boolean">>
        ELSE IF fromisoformat(v) = "ValueError" THEN NoneVal
        ELSE IF Len(v) > 10 THEN XSD_NS \o <<"dateTime">>
        ELSE XSD_NS \o <<"date">>

infer_datatype(value) ==
    LET v == Strip(value)
    IN  IF IsInteger(v) THEN XSD_NS \o <<"integer">>
        ELSE IF IsDecimal(v) THEN XSD_NS \o <<"decimal">>
        ELSE IF IsBoolean(v) THEN XSD_NS \o <<"boolean">>
        ELSE IF fromisoformat(v) = "ValueError" THEN NoneVal
        ELSE XSD_NS \o <<fromisoformat(v)>>

(***************************************************************************)
(* pk_to_uri  (csv2rdf.py 120-122)                                         *)
(***************************************************************************)
HttpPrefix  == <<"h", "t", "t", "p", ":", "/", "/">>
HttpsPrefix == <<"h", "t", "t", "p", "s", ":", "/", "/">>

\* variant: no passthrough of absolute URLs
pk_to_uri_always_mint(pk_val, base) == base \o safe(pk_val)

pk_to_uri(pk_val, base) ==
    IF StartsWith(pk_val, HttpPrefix) \/ StartsWith(pk_val, HttpsPrefix)
    THEN pk_val
    ELSE base \o safe(pk_val)

(***************************************************************************)
(* Default configuration  (csv2rdf.py 41-78)                               *)
(***************************************************************************)
BASE_DEFAULT == <<"http://example.org/resource", "/">>
SEP_DEFAULT  == <<",">>

NS_INTERNAL == (<<"rec">> :> <<>>) @@ (<<"col">> :> <<"column", "/">>)
               @@ (<<"val">> :> <<"value", "/">>)

DEFAULT_PREFIXES == (<<"xsd">> :> XSD_NS)
                    @@ (<<"bibo">> :> <<"http://purl.org/ontology/bibo/">>)

DEFAULT_CFG ==
    [ base_uri           |-> BASE_DEFAULT,
      entity_base_uri    |-> BASE_DEFAULT,
      prefixes           |-> DEFAULT_PREFIXES,
      separator          |-> SEP_DEFAULT,
      primary_key        |-> NoneVal,
      multivalued        |-> <<>>,
      catalogs           |-> <<>>,
      relations          |-> <<>>,
      property_map       |-> <<>>,
      entity_templates   |-> <<>>,
      classes            |-> [list |-> << <<"bibo", ":", "Article">> >>],
      datatype_overrides |-> <<>>,
      lang               |-> <<"en">>,
      format             |-> <<"t", "u", "r", "t", "l", "e">> ]

SUPPORTED_FORMATS ==
    (<<"t", "u", "r", "t", "l", "e">> :> "turtle")
    @@ (<<"t", "t", "l">> :> "turtle")
    @@ (<<"j", "s", "o", "n", "-", "l", "d">> :> "json-ld")
    @@ (<<"n", "t">> :> "nt")
    @@ (<<"n", "t", "r", "i", "p", "l", "e", "s">> :> "nt")
    @@ (<<"x", "m", "l">> :> "xml")
    @@ (<<"r", "d", "f", "x", "m", "l">> :> "xml")

\* "classes" is a list of CURIEs, [list |-> <<...>>], or one string of
\* "|"-separated CURIEs, [str |-> text]
\* dict.update: the entries of u over those of d
DictUpdate(d, u) ==
    [k \in DOMAIN d \cup DOMAIN u |-> IF k \in DOMAIN u THEN u[k] ELSE d[k]]

\* dict.get(k, default)
DictGet(d, k, default) == IF k \in DOMAIN d THEN d[k] ELSE default

\* a list as the set of its elements
Range(q) == {q[i] : i \in 1..Len(q)}

(***************************************************************************)
(* Base URIs and prefix table  (csv2rdf.py 158-164)                        *)
(***************************************************************************)
Base(c)       == RStripBy(c.base_uri, {"/"}) \o <<"/">>
EntityBase(c) == RStripBy(c.entity_base_uri, {"/"}) \o <<"/">>

Prefixes(c) ==
    DictUpdate(DictUpdate(DEFAULT_PREFIXES, c.prefixes),
               [k \in DOMAIN NS_INTERNAL |-> Base(c) \o NS_INTERNAL[k]])

\* ns["col"][name], ns["val"][name]
NsCol(c, name) == Prefixes(c)[<<"col">>] \o name
NsVal(c, name) == Prefixes(c)[<<"val">>] \o name

(***************************************************************************)
(* RDF terms and the rdflib vocabulary used by the program.  A triple is   *)
(* <<subject, predicate, object>>; subject and predicate are IRIs (text),  *)
(* the object is a term.                                                   *)
(***************************************************************************)
URIRef(u)           == [kind |-> "uri", val |-> u, lang |-> NoneVal, dt |-> NoneVal]
LangLiteral(v, l)   == [kind |-> "lit", val |-> v, lang |-> l, dt |-> NoneVal]
TypedLiteral(v, dt) == [kind |-> "lit", val |-> v, lang |-> NoneVal, dt |-> dt]

RDF_type           == <<"rdf:type">>
RDFS_label         == <<"rdfs:label">>
SKOS_ConceptScheme == <<"skos:ConceptScheme">>
SKOS_Concept       == <<"skos:Concept">>
SKOS_prefLabel     == <<"skos:prefLabel">>
SKOS_inScheme      == <<"skos:inScheme">>

(***************************************************************************)
(* Primary-key index  (csv2rdf.py 171-175).  A row is a function from      *)
(* column name to cell text; an empty cell (NaN after fillna) is <<>>.     *)
(***************************************************************************)
PkVal(c, row) == Strip(row[c.primary_key])

\* variant: the value computed from the untrimmed cell
PkEntryRaw(c, row) == pk_to_uri(row[c.primary_key], Base(c))

\* the value stored for a row's key
PkEntry(c, row) == pk_to_uri(PkVal(c, row), Base(c))

\* dict comprehension over the rows in order: a later row overwrites an
\* earlier one with the same key
RECURSIVE PkIndexFrom(_, _, _)
PkIndexFrom(c, rows, acc) ==
    IF rows = <<>> THEN acc
    ELSE PkIndexFrom(c, Tail(rows),
                     IF PkVal(c, Head(rows)) # <<>>
                     THEN DictUpdate(acc, PkVal(c, Head(rows)) :> PkEntry(c, Head(rows)))
                     ELSE acc)

\* variant: a key already in the index makes the later row's key be left out
PkIndexUniqueKeysOnly(c, rows) ==
    LET full == PkIndexFrom(c, rows, <<>>)
        once == {k \in DOMAIN full :
                   Cardinality({i \in 1..Len(rows) : PkVal(c, rows[i]) = k}) = 1}
    IN  [k \in once |-> full[k]]

PkIndex(c, rows) == PkIndexFrom(c, rows, <<>>)

(***************************************************************************)
(* Catalog Builder  (csv2rdf.py 178-188)                                   *)
(***************************************************************************)
\* df[col].dropna().unique(), stripped, empty ones left out
CatalogValues(rows, col) ==
    {Strip(rows[i][col]) : i \in 1..Len(rows)} \ {<<>>}

SchemeUri(c, col) == NsCol(c, safe(col))
ConceptUri(c, col, v) == NsVal(c, safe(col) \o <<"/">> \o safe(v))

CatalogColTriples(c, rows, col) ==
    { <<SchemeUri(c, col), RDF_type, URIRef(SKOS_ConceptScheme)>>,
      <<SchemeUri(c, col), RDFS_label, LangLiteral(col, c.lang)>> }
    \cup UNION { { <<ConceptUri(c, col, v), RDF_type, URIRef(SKOS_Concept)>>,
                   <<ConceptUri(c, col, v), SKOS_prefLabel, LangLiteral(v, c.lang)>>,
                   <<ConceptUri(c, col, v), SKOS_inScheme, URIRef(SchemeUri(c, col))>> }
                 : v \in CatalogValues(rows, col) }

CatalogTriples(c, rows) ==
    UNION { CatalogColTriples(c, rows, col) : col \in Range(c.catalogs) }

(***************************************************************************)
(* Row pass  (csv2rdf.py 193-295)                                          *)
(***************************************************************************)
\* row.get(col, "")
RowGet(row, col) == IF col \in DOMAIN row THEN row[col] ELSE <<>>

\* col_sep  (line 207)
\* variant: the per-column overrides are ignored
ColSepDefaultOnly(c, col) == c.separator
ColSep(c, col) == DictGet(c.multivalued, col, c.separator)

\* default type statements  (lines 200-201)
RowTypeTriples(c, subj) ==
    { <<subj, RDF_type, URIRef(expand(cl, Prefixes(c)))>> : cl \in Range(c.classes.list) }

(* ---------------- entity templates  (lines 210-267) -------------------- *)
TemplateValues(c, row, col) ==
    LET spec == c.entity_templates[col]
    IN  split_cell(RowGet(row, DictGet(spec, "source_column", col)),
                   DictGet(spec, "separator", ColSep(c, col)))

\* variant: the id column split with its own separator (override or default)
TemplateIdValuesOwnSeparator(c, row, col) ==
    LET spec == c.entity_templates[col]
    IN  IF "id_source" \in DOMAIN spec /\ "from_column" \in DOMAIN spec.id_source
        THEN split_cell(RowGet(row, spec.id_source.from_column),
                        DictGet(c.multivalued, spec.id_source.from_column, c.separator))
        ELSE <<>>

TemplateIdValues(c, row, col) ==
    LET spec == c.entity_templates[col]
    IN  IF "id_source" \in DOMAIN spec /\ "from_column" \in DOMAIN spec.id_source
        THEN split_cell(RowGet(row, spec.id_source.from_column),
                        DictGet(c.multivalued, spec.id_source.from_column, ColSep(c, col)))
        ELSE <<>>

\* str.format on a path template: the placeholders are single symbols
RECURSIVE FormatPath(_, _, _, _)
FormatPath(tmpl, value, safe_value, id) ==
    IF tmpl = <<>> THEN <<>>
    ELSE (CASE Head(tmpl) = "{value}"      -> value
            [] Head(tmpl) = "{safe_value}" -> safe_value
            [] Head(tmpl) = "{id}"         -> id
            [] OTHER                       -> <<Head(tmpl)>>)
         \o FormatPath(Tail(tmpl), value, safe_value, id)

\* the id substituted for {id} at position idx (1-based)
TemplateId(ids, idx, v) ==
    IF idx <= Len(ids) /\ Strip(ids[idx]) # <<>> THEN Strip(ids[idx]) ELSE safe(v)

\* variant: the child minted under the base of the row subjects
ChildUriRowBase(c, row, col, idx) ==
    LET spec == c.entity_templates[col]
        v    == TemplateValues(c, row, col)[idx]
    IN  Base(c) \o FormatPath(DictGet(spec, "path", <<"{safe_value}">>),
                              v, safe(v),
                              TemplateId(TemplateIdValues(c, row, col), idx, v))

ChildUri(c, row, col, idx) ==
    LET spec == c.entity_templates[col]
        v    == TemplateValues(c, row, col)[idx]
    IN  EntityBase(c) \o FormatPath(DictGet(spec, "path", <<"{safe_value}">>),
                                    v, safe(v),
                                    TemplateId(TemplateIdValues(c, row, col), idx, v))

\* variant: match_by_index ignored, a cross-column rule always takes the whole cell
ChildLiteralTriplesWholeValue(c, row, col, idx, lit_pred) ==
    LET spec    == c.entity_templates[col]
        v       == TemplateValues(c, row, col)[idx]
        mode    == spec.literals[lit_pred]
        obj_uri == ChildUri(c, row, col, idx)
        lit_uri == expand(lit_pred, Prefixes(c))
    IN  IF "str" \in DOMAIN mode
        THEN { <<obj_uri, lit_uri,
                 LangLiteral(IF mode.str = <<"raw">> THEN v ELSE safe(v), c.lang)>> }
        ELSE IF "from_column" \in DOMAIN mode /\ Strip(RowGet(row, mode.from_column)) # <<>>
        THEN { <<obj_uri, lit_uri, LangLiteral(Strip(RowGet(row, mode.from_column)), c.lang)>> }
        ELSE {}

\* the literal, if any, one rule of "literals" gives the idx-th child
ChildLiteralTriples(c, row, col, idx, lit_pred) ==
    LET spec    == c.entity_templates[col]
        v       == TemplateValues(c, row, col)[idx]
        mode    == spec.literals[lit_pred]
        obj_uri == ChildUri(c, row, col, idx)
        lit_uri == expand(lit_pred, Prefixes(c))
    IN  IF "str" \in DOMAIN mode
        THEN { <<obj_uri, lit_uri,
                 LangLiteral(IF mode.str = <<"raw">> THEN v ELSE safe(v), c.lang)>> }
        ELSE IF "from_column" \in DOMAIN mode
        THEN LET from_raw == RowGet(row, mode.from_column)
             IN  IF DictGet(mode, "match_by_index", FALSE)
                 THEN LET aux == split_cell(from_raw,
                                            DictGet(c.multivalued, mode.from_column,
                                                    ColSep(c, col)))
                      IN  IF idx <= Len(aux) /\ Strip(aux[idx]) # <<>>
                          THEN { <<obj_uri, lit_uri, LangLiteral(Strip(aux[idx]), c.lang)>> }
                          ELSE {}
                 ELSE IF Strip(from_raw) # <<>>
                      THEN { <<obj_uri, lit_uri, LangLiteral(Strip(from_raw), c.lang)>> }
                      ELSE {}
        ELSE {}

ChildTriples(c, row, col, subj, idx) ==
    LET spec    == c.entity_templates[col]
        obj_uri == ChildUri(c, row, col, idx)
        inv     == DictGet(spec, "inverse_predicate", NoneVal)
    IN  { <<obj_uri, RDF_type, URIRef(expand(t, Prefixes(c)))>>
            : t \in Range(DictGet(spec, "types", <<>>)) }
        \cup UNION { ChildLiteralTriples(c, row, col, idx, lp)
                       : lp \in DOMAIN DictGet(spec, "literals", <<>>) }
        \cup { <<subj, expand(spec.link_predicate, Prefixes(c)), URIRef(obj_uri)>> }
        \cup (IF inv # NoneVal /\ inv # <<>>
              THEN { <<obj_uri, expand(inv, Prefixes(c)), URIRef(subj)>> }
              ELSE {})

\* variant: only the first source value is expanded
TemplateTriplesFirstChild(c, row, col, subj) ==
    UNION { ChildTriples(c, row, col, subj, idx)
              : idx \in 1..(IF TemplateValues(c, row, col) = <<>> THEN 0 ELSE 1) }

TemplateTriples(c, row, col, subj) ==
    UNION { ChildTriples(c, row, col, subj, idx)
              : idx \in 1..Len(TemplateValues(c, row, col)) }

(* ---------------- catalogs  (lines 270-275) ----------------------------- *)
CatalogLinkTriples(c, row, col, subj) ==
    LET p_uri == IF col \in DOMAIN c.property_map
                 THEN expand(c.property_map[col], Prefixes(c))
                 ELSE NsCol(c, safe(col))
    IN  { <<subj, p_uri, URIRef(ConceptUri(c, col, v))>>
            : v \in Range(split_cell(row[col], ColSep(c, col))) }

(* ---------------- relations  (lines 278-287) ---------------------------- *)
\* next((r for r in cfg["relations"] if r["from"] == col), None)
\* HasRelation is "if rel:", FirstRelation the spec found
RelationHits(c, col) == {i \in 1..Len(c.relations) : c.relations[i].from = col}
HasRelation(c, col) == RelationHits(c, col) # {}
FirstRelation(c, col) ==
    c.relations[CHOOSE i \in RelationHits(c, col) : \A j \in RelationHits(c, col) : i <= j]

\* pk_index.get(key) followed by "if obj": the key resolves
Resolves(index, key) == key \in DOMAIN index /\ index[key] # <<>>

RelationTriples(c, row, col, subj, index) ==
    LET pred == expand(FirstRelation(c, col).predicate, Prefixes(c))
    IN  { <<subj, pred, URIRef(index[Strip(v)])>>
            : v \in {w \in Range(split_cell(row[col], ColSep(c, col)))
                       : Resolves(index, Strip(w))} }

\* what the cell appends to rel_buffer, in order
RECURSIVE Unresolved(_, _, _, _)
Unresolved(values, subj, pred, index) ==
    IF values = <<>> THEN <<>>
    ELSE (IF Resolves(index, Strip(Head(values))) THEN <<>>
          ELSE << <<subj, pred, Strip(Head(values))>> >>)
         \o Unresolved(Tail(values), subj, pred, index)

\* variant: an unresolved value is dropped at once, never buffered
RelationDeferredNone(c, row, col, subj, index) == <<>>

RelationDeferred(c, row, col, subj, index) ==
    Unresolved(split_cell(row[col], ColSep(c, col)), subj,
               expand(FirstRelation(c, col).predicate, Prefixes(c)), index)

(* ---------------- default literal  (lines 290-295) ---------------------- *)
LiteralTriples(c, row, col, subj) ==
    LET p_curie == DictGet(c.property_map, col, NoneVal)
        p_uri   == IF p_curie # NoneVal /\ p_curie # <<>>
                   THEN expand(p_curie, Prefixes(c))
                   ELSE NsCol(c, safe(col))
        dt_over == DictGet(c.datatype_overrides, col, NoneVal)
    IN  { <<subj, p_uri,
            TypedLiteral(v, IF dt_over # NoneVal /\ dt_over # <<>>
                            THEN expand(dt_over, Prefixes(c))
                            ELSE infer_datatype(v))>>
            : v \in Range(split_cell(row[col], ColSep(c, col))) }

(* ---------------- dispatch  (lines 204-295) ----------------------------- *)
\* variant: the catalog test placed before the template test
CellTriplesCatalogFirst(c, row, col, subj, index) ==
    IF col \in Range(c.catalogs) THEN CatalogLinkTriples(c, row, col, subj)
    ELSE IF col \in DOMAIN c.entity_templates THEN TemplateTriples(c, row, col, subj)
    ELSE IF HasRelation(c, col) THEN RelationTriples(c, row, col, subj, index)
    ELSE LiteralTriples(c, row, col, subj)

\* variant: no "continue" after the template branch (line 267)
CellTriplesFallThrough(c, row, col, subj, index) ==
    (IF col \in DOMAIN c.entity_templates THEN TemplateTriples(c, row, col, subj) ELSE {})
    \cup (IF col \in Range(c.catalogs) THEN CatalogLinkTriples(c, row, col, subj)
          ELSE IF HasRelation(c, col) THEN RelationTriples(c, row, col, subj, index)
          ELSE LiteralTriples(c, row, col, subj))

\* the triples one cell adds: the first matching rule, then "continue"
CellTriples(c, row, col, subj, index) ==
    IF col \in DOMAIN c.entity_templates THEN TemplateTriples(c, row, col, subj)
    ELSE IF col \in Range(c.catalogs) THEN CatalogLinkTriples(c, row, col, subj)
    ELSE IF HasRelation(c, col)
         THEN RelationTriples(c, row, col, subj, index)
    ELSE LiteralTriples(c, row, col, subj)

\* the entries one cell appends to rel_buffer
CellDeferred(c, row, col, subj, index) ==
    IF col \in DOMAIN c.entity_templates THEN <<>>
    ELSE IF col \in Range(c.catalogs) THEN <<>>
    ELSE IF HasRelation(c, col)
         THEN RelationDeferred(c, row, col, subj, index)
    ELSE <<>>

\* line 205: the cells the column loop does not skip
Dispatched(c, row, col) == col # c.primary_key /\ row[col] # <<>>

RowTriples(c, cols, row, index) ==
    LET subj == index[PkVal(c, row)]
    IN  RowTypeTriples(c, subj)
        \cup UNION { CellTriples(c, row, col, subj, index)
                       : col \in {k \in Range(cols) : Dispatched(c, row, k)} }

\* the entries one row appends to rel_buffer, column by column
RECURSIVE RowDeferred(_, _, _, _)
RowDeferred(c, cols, row, index) ==
    IF cols = <<>> THEN <<>>
    ELSE (IF Dispatched(c, row, Head(cols))
          THEN CellDeferred(c, row, Head(cols), index[PkVal(c, row)], index)
          ELSE <<>>)
         \o RowDeferred(c, Tail(cols), row, index)

(***************************************************************************)
(* Deferred relation pass  (csv2rdf.py 298-301)                            *)
(***************************************************************************)
\* variant: an unresolved key is linked as if it were an IRI
DeferredTriplesLinkAnyway(entry, index) ==
    { <<entry[1], entry[2],
        URIRef(IF Resolves(index, entry[3]) THEN index[entry[3]] ELSE entry[3])>> }

\* variant: a key that is still missing is recorded as a literal
DeferredTriplesKeyAsLiteral(entry, index) ==
    IF Resolves(index, entry[3])
    THEN { <<entry[1], entry[2], URIRef(index[entry[3]])>> }
    ELSE { <<entry[1], entry[2], TypedLiteral(entry[3], NoneVal)>> }

DeferredTriples(entry, index) ==
    IF Resolves(index, entry[3])
    THEN { <<entry[1], entry[2], URIRef(index[entry[3]])>> }
    ELSE {}

(***************************************************************************)
(* Inputs: the table and the user configuration.                           *)
(***************************************************************************)
MaxRows == 2

KCol == <<"k">>
XCol == <<"x">>
YCol == <<"y">>

\* df.columns
Columns == <<KCol, XCol, YCol>>

Row(k, x, y) == (KCol :> k) @@ (XCol :> x) @@ (YCol :> y)

UrlA == <<"h", "t", "t", "p", ":", "/", "/", "a">>

RowPool ==
    { Row(<<"a">>,           <<"b">>,           <<"q">>),
      Row(<<"b">>,           <<"a", ",", "z">>, <<>>),
      Row(<<>>,              <<"c">>,           <<"q">>),
      Row(<<" ", "a", " ">>, <<" ">>,           <<"1">>),
      Row(UrlA,              UrlA,              <<>>),
      Row(<<" ">>,           <<"a">>,           <<>>),
      Row(<<" ">> \o UrlA,   <<>>,              <<"q", ",", "r">>) }

Tables == UNION { [1..n -> RowPool] : n \in 0..MaxRows }

DctNs  == <<"http://purl.org/dc/terms/">>
FoafNs == <<"http://xmlns.com/foaf/0.1/">>
UserPrefixes == (<<"dct">> :> DctNs) @@ (<<"foaf">> :> FoafNs)

Curie(pre, loc) == <<pre, ":", loc>>

\* entity templates offered for column x
TplSimple ==
    [ link_predicate |-> Curie("dct", "creator"),
      path           |-> <<"p", "/", "{safe_value}">>,
      types          |-> << Curie("foaf", "Person") >>,
      literals       |-> (Curie("foaf", "name") :> [str |-> <<"raw">>]) ]

TplRich ==
    [ link_predicate    |-> Curie("dct", "creator"),
      inverse_predicate |-> Curie("foaf", "made"),
      path              |-> <<"a", "/", "{id}">>,
      id_source         |-> [from_column |-> YCol, match_by_index |-> TRUE],
      literals          |-> (Curie("foaf", "nick")
                               :> [from_column |-> YCol, match_by_index |-> TRUE]) ]

TemplateChoices == { <<>>, XCol :> TplSimple }
CatalogChoices  == { <<>>, <<XCol>> }
RelationChoices == { <<>>, << [from |-> XCol, predicate |-> Curie("dct", "relation")] >> }
PropertyChoices == { <<>>, XCol :> Curie("dct", "subject") }
EntityBaseChoices == { BASE_DEFAULT, <<"http://e.org", "/", "/">> }

\* configurations naming the primary key and a supported format: column x
\* listed in any combination of the four sections
ValidConfigs ==
    { [ primary_key      |-> KCol,
        prefixes         |-> UserPrefixes,
        entity_base_uri  |-> eb,
        entity_templates |-> t,
        catalogs         |-> cat,
        relations        |-> rel,
        property_map     |-> pm ]
      : t \in TemplateChoices, cat \in CatalogChoices, rel \in RelationChoices,
        pm \in PropertyChoices, eb \in EntityBaseChoices }

\* configurations the run rejects, one with the format in upper case, one
\* whose template reads ids and literals from column y, and one with its own
\* base URIs and its classes given as a string
OtherConfigs ==
    { <<>>,
      [ primary_key |-> <<"zz">> ],
      [ primary_key |-> <<"zz">>, format |-> <<"c", "s", "v">> ],
      [ primary_key |-> KCol, format |-> <<"c", "s", "v">>,
        relations |-> << [from |-> XCol, predicate |-> Curie("dct", "relation")] >> ],
      [ primary_key |-> KCol, format |-> <<"T", "T", "L">>, catalogs |-> <<XCol>> ],
      [ primary_key |-> KCol, prefixes |-> UserPrefixes,
        entity_templates |-> (XCol :> TplRich) ],
      [ primary_key |-> KCol, prefixes |-> UserPrefixes,
        base_uri |-> <<"http://b.org">>, entity_base_uri |-> <<"http://e.org", "/">>,
        classes |-> [str |-> <<"bibo", ":", "Article", " ", "|", "foaf", ":", "Document", "|">>],
        relations |-> << [from |-> XCol, predicate |-> Curie("dct", "relation")] >> ] }

UserConfigs == ValidConfigs \cup OtherConfigs

(***************************************************************************)
(* The run of main() / csv_to_rdf as a state machine.                      *)
(***************************************************************************)
VARIABLES
    user,         \* the JSON configuration file (<<>> when none is given)
    df,           \* the table read from the CSV file, a sequence of rows
    cfg,          \* the effective configuration
    pc,           \* position in csv_to_rdf / main
    pk_index,     \* key text -> subject IRI
    g,            \* the graph: a set of triples
    rel_buffer,   \* deferred relation entries <<subj, pred, key>>
    row_i,        \* rows the row loop has gone through
    buf_i,        \* entries of rel_buffer the deferred loop has gone through
    out,          \* the calls of g.serialize
    exit_status,  \* <<>> while running, then <<status>>
    call          \* a call of a helper function on its own: name, arguments, result

vars == <<user, df, cfg, pc, pk_index, g, rel_buffer, row_i, buf_i, out, exit_status, call>>

\* no helper is being called on its own
NoCall == [fn |-> "none", args |-> <<>>, ret |-> <<>>, done |-> FALSE]

Init ==
    /\ user \in UserConfigs
    /\ df \in Tables
    /\ cfg = DEFAULT_CFG
    /\ pc = "load"
    /\ pk_index = <<>>
    /\ g = {}
    /\ rel_buffer = <<>>
    /\ row_i = 0
    /\ buf_i = 0
    /\ out = <<>>
    /\ exit_status = <<>>
    /\ call = NoCall

\* lines 135-136: a string of classes becomes the list of its "|"-separated,
\* trimmed, non-empty pieces
NormalizeClasses(c) ==
    IF "str" \in DOMAIN c.classes
    THEN [c EXCEPT !.classes = [list |-> StripKeepNonEmpty(StrSplit(c.classes.str, <<"|">>, <<>>))]]
    ELSE c

\* lines 130-136
LoadConfig ==
    /\ pc = "load"
    /\ cfg' = NormalizeClasses(DictUpdate(DEFAULT_CFG, user))
    /\ pc' = "validate"
    /\ UNCHANGED <<call, user, df, pk_index, g, rel_buffer, row_i, buf_i, out, exit_status>>

\* lines 153-154: "not pk_col or pk_col not in df.columns"
PkMissing(c) ==
    c.primary_key = NoneVal \/ c.primary_key = <<>> \/ c.primary_key \notin Range(Columns)

\* line 155
ValidateFail ==
    /\ pc = "validate"
    /\ PkMissing(cfg)
    /\ pc' = "raised"
    /\ UNCHANGED <<call, user, df, cfg, pk_index, g, rel_buffer, row_i, buf_i, out, exit_status>>

ValidateOk ==
    /\ pc = "validate"
    /\ ~PkMissing(cfg)
    /\ pc' = "index"
    /\ UNCHANGED <<call, user, df, cfg, pk_index, g, rel_buffer, row_i, buf_i, out, exit_status>>

\* lines 171-175
BuildIndex ==
    /\ pc = "index"
    /\ pk_index' = PkIndex(cfg, df)
    /\ pc' = "catalogs"
    /\ UNCHANGED <<call, user, df, cfg, g, rel_buffer, row_i, buf_i, out, exit_status>>

\* variant: the graph is replaced by the batch instead of extended
add_all_fresh_graph(graph, triples) == triples

\* Graph.add of a batch of triples
add_all(graph, triples) == graph \cup triples

\* lines 178-188
CatalogBuilder ==
    /\ pc = "catalogs"
    /\ g' = add_all(g, CatalogTriples(cfg, df))
    /\ pc' = "rows"
    /\ UNCHANGED <<call, user, df, cfg, pk_index, rel_buffer, row_i, buf_i, out, exit_status>>

\* variant: the key tested without trimming
SkipsRowUntrimmed(c, row) == row[c.primary_key] = <<>>

\* lines 194-196
SkipsRow(c, row) == PkVal(c, row) = <<>>

SkipRow ==
    /\ pc = "rows"
    /\ row_i < Len(df)
    /\ SkipsRow(cfg, df[row_i + 1])
    /\ row_i' = row_i + 1
    /\ UNCHANGED <<call, user, df, cfg, pc, pk_index, g, rel_buffer, buf_i, out, exit_status>>

\* lines 197-295 for one row; pk_index[pk_val] raises KeyError on a missing key
RowStep ==
    /\ pc = "rows"
    /\ row_i < Len(df)
    /\ ~SkipsRow(cfg, df[row_i + 1])
    /\ IF PkVal(cfg, df[row_i + 1]) \in DOMAIN pk_index
       THEN /\ g' = add_all(g, RowTriples(cfg, Columns, df[row_i + 1], pk_index))
            /\ rel_buffer' = rel_buffer \o RowDeferred(cfg, Columns, df[row_i + 1], pk_index)
            /\ row_i' = row_i + 1
            /\ pc' = pc
       ELSE /\ pc' = "raised"
            /\ UNCHANGED <<g, rel_buffer, row_i>>
    /\ UNCHANGED <<call, user, df, cfg, pk_index, buf_i, out, exit_status>>

\* variant: the deferred pass is left out
EndRowsSkipDeferred ==
    /\ pc = "rows"
    /\ row_i = Len(df)
    /\ pc' = "serialize"
    /\ UNCHANGED <<call, user, df, cfg, pk_index, g, rel_buffer, row_i, buf_i, out, exit_status>>

\* the row loop ends
EndRows ==
    /\ pc = "rows"
    /\ row_i = Len(df)
    /\ pc' = "deferred"
    /\ UNCHANGED <<call, user, df, cfg, pk_index, g, rel_buffer, row_i, buf_i, out, exit_status>>

\* lines 298-301 for one entry
DeferredStep ==
    /\ pc = "deferred"
    /\ buf_i < Len(rel_buffer)
    /\ g' = add_all(g, DeferredTriples(rel_buffer[buf_i + 1], pk_index))
    /\ buf_i' = buf_i + 1
    /\ UNCHANGED <<call, user, df, cfg, pc, pk_index, rel_buffer, row_i, out, exit_status>>

EndDeferred ==
    /\ pc = "deferred"
    /\ buf_i = Len(rel_buffer)
    /\ pc' = "serialize"
    /\ UNCHANGED <<call, user, df, cfg, pk_index, g, rel_buffer, row_i, buf_i, out, exit_status>>

\* variant: an unknown format falls back to Turtle
SerializeFallback ==
    /\ pc = "serialize"
    /\ Lower(cfg.format) \notin DOMAIN SUPPORTED_FORMATS
    /\ out' = Append(out, [format |-> "turtle", triples |-> g])
    /\ pc' = "returned"
    /\ UNCHANGED <<call, user, df, cfg, pk_index, g, rel_buffer, row_i, buf_i, exit_status>>

\* lines 305-306
SerializeFail ==
    /\ pc = "serialize"
    /\ Lower(cfg.format) \notin DOMAIN SUPPORTED_FORMATS
    /\ pc' = "raised"
    /\ UNCHANGED <<call, user, df, cfg, pk_index, g, rel_buffer, row_i, buf_i, out, exit_status>>

\* lines 307-314
SerializeOk ==
    /\ pc = "serialize"
    /\ Lower(cfg.format) \in DOMAIN SUPPORTED_FORMATS
    /\ out' = Append(out, [format |-> SUPPORTED_FORMATS[Lower(cfg.format)], triples |-> g])
    /\ pc' = "returned"
    /\ UNCHANGED <<call, user, df, cfg, pk_index, g, rel_buffer, row_i, buf_i, exit_status>>

\* lines 329-331
MainExcept ==
    /\ pc = "raised"
    /\ exit_status' = <<1>>
    /\ pc' = "exited"
    /\ UNCHANGED <<call, user, df, cfg, pk_index, g, rel_buffer, row_i, buf_i, out>>

\* lines 327-328, 333-334: csv_to_rdf returns and the process ends normally
MainReturn ==
    /\ pc = "returned"
    /\ exit_status' = <<0>>
    /\ pc' = "exited"
    /\ UNCHANGED <<call, user, df, cfg, pk_index, g, rel_buffer, row_i, buf_i, out>>

Next ==
    \/ LoadConfig
    \/ ValidateFail
    \/ ValidateOk
    \/ BuildIndex
    \/ CatalogBuilder
    \/ SkipRow
    \/ RowStep
    \/ EndRows
    \/ DeferredStep
    \/ EndDeferred
    \/ SerializeFail
    \/ SerializeOk
    \/ MainExcept
    \/ MainReturn

Spec == Init /\ [][Next]_vars

(***************************************************************************)
(* The helper functions called on their own (csv2rdf.py 83-101), as an     *)
(* importing module or a test would call them: one call per behaviour,     *)
(* its arguments drawn from the texts of at most MaxLen characters over a  *)
(* small alphabet and from a few longer texts.                             *)
(***************************************************************************)
MaxLen == 3

\* the texts of at most n characters over an alphabet
Texts(alphabet, n) == UNION { [1..k -> alphabet] : k \in 0..n }

SafeAlphabet == {"a", "_", " ", "!", "ntilde", "euro"}
SafeInputs ==
    Texts(SafeAlphabet, MaxLen)
    \cup { <<"A", "ntilde", "o", " ", "2", "0", "2", "4", "!">>,
           <<"a", "_", "!", "b">>, <<"!", "a", " ", "b", "!", "!">> }

SplitAlphabet == {"a", " ", ";", ","}
SplitSeparators == { <<>>, <<";">>, <<" ">>, <<";", ";">> }
SplitInputs ==
    Texts(SplitAlphabet, MaxLen)
    \cup { <<"a", ";", " ", "b", " ", ";", "c">>, <<" ", "a", ";", ";", ";", "a", " ">> }

\* prefix tables with prefixes spelled character by character
DctPrefix == <<"d", "c", "t">>
ExpandTables ==
    { <<>>, DctPrefix :> DctNs, (<<"d">> :> DctNs) @@ (<<"x">> :> FoafNs),
      (<<"h", "t", "t", "p">> :> FoafNs) }
ExpandAlphabet == {"d", "x", ":", "/"}
ExpandInputs ==
    Texts(ExpandAlphabet, MaxLen)
    \cup { DctPrefix \o <<":", "t", "i", "t", "l", "e">>,
           UrlA, HttpsPrefix \o <<"x", ":", "d">>,
           <<"u", "r", "n", ":", "x", ":", "d">> }

HelperCalls ==
    { [fn |-> "safe", args |-> <<x>>, ret |-> <<>>, done |-> FALSE] : x \in SafeInputs }
    \cup { [fn |-> "split_cell", args |-> <<x, sep>>, ret |-> <<>>, done |-> FALSE]
             : x \in SplitInputs, sep \in SplitSeparators }
    \cup { [fn |-> "expand", args |-> <<x, pref>>, ret |-> <<>>, done |-> FALSE]
             : x \in ExpandInputs, pref \in ExpandTables }

HelperInit ==
    /\ user = <<>>
    /\ df = <<>>
    /\ cfg = DEFAULT_CFG
    /\ pc = "helpers"
    /\ pk_index = <<>>
    /\ g = {}
    /\ rel_buffer = <<>>
    /\ row_i = 0
    /\ buf_i = 0
    /\ out = <<>>
    /\ exit_status = <<>>
    /\ call \in HelperCalls

\* lines 83-86
CallSafe ==
    /\ pc = "helpers" /\ call.fn = "safe" /\ ~call.done
    /\ call' = [call EXCEPT !.ret = safe(call.args[1]), !.done = TRUE]
    /\ UNCHANGED <<user, df, cfg, pc, pk_index, g, rel_buffer, row_i, buf_i, out, exit_status>>

\* lines 89-93
CallSplitCell ==
    /\ pc = "helpers" /\ call.fn = "split_cell" /\ ~call.done
    /\ call' = [call EXCEPT !.ret = split_cell(call.args[1], call.args[2]), !.done = TRUE]
    /\ UNCHANGED <<user, df, cfg, pc, pk_index, g, rel_buffer, row_i, buf_i, out, exit_status>>

\* lines 96-101
CallExpand ==
    /\ pc = "helpers" /\ call.fn = "expand" /\ ~call.done
    /\ call' = [call EXCEPT !.ret = expand(call.args[1], call.args[2]), !.done = TRUE]
    /\ UNCHANGED <<user, df, cfg, pc, pk_index, g, rel_buffer, row_i, buf_i, out, exit_status>>

HelperNext ==
    \/ CallSafe
    \/ CallSplitCell
    \/ CallExpand

SpecHelpers == HelperInit /\ [][HelperNext]_vars

(***************************************************************************)
(* Runs over tables and configurations that exercise the entity templates: *)
(* column x is template-bound, column y supplies ids and literals.         *)
(***************************************************************************)
AuthorPath == <<"a", "u", "t", "h", "o", "r", "/">>
Ana        == <<"A", "n", "a">>
Luis       == <<"L", "u", "i", "s">>

TemplateRowPool ==
    { Row(<<"a">>, <<"u", ",", "v">>,           <<"1", ",", "2">>),
      Row(<<"b">>, <<"u", ";", "v">>,           <<"1", ";", "2">>),
      Row(<<"a">>, <<"u", ",", " ", "w", "!">>, <<"7">>),
      Row(<<" ">>, <<"u">>,                     <<"1">>),
      Row(<<"c">>, Ana \o <<";">> \o Luis,      <<>>),
      Row(<<"b">>, <<"u", ";", "v">>,           <<"1", ",", "2">>),
      Row(<<"d">>, <<>>,                        <<"1", ",", " ", ",", "3">>) }

TemplateTables == UNION { [1..n -> TemplateRowPool] : n \in 0..MaxRows }

\* every placeholder, an inverse predicate, ids from column y and one
\* literal rule of each kind
TplFull ==
    [ link_predicate    |-> Curie("dct", "creator"),
      inverse_predicate |-> Curie("foaf", "made"),
      path              |-> <<"{value}", "/", "{id}", "/", "{safe_value}">>,
      id_source         |-> [from_column |-> YCol],
      types             |-> << Curie("foaf", "Person"), Curie("foaf", "Agent") >>,
      literals          |-> (Curie("foaf", "name") :> [str |-> <<"raw">>])
                            @@ (Curie("dct", "identifier") :> [str |-> <<"safe">>])
                            @@ (Curie("foaf", "nick")
                                  :> [from_column |-> YCol, match_by_index |-> TRUE])
                            @@ (Curie("dct", "title")
                                  :> [from_column |-> YCol, match_by_index |-> FALSE]) ]

\* the template of the "Ana;Luis" example: its own separator, no inverse
TplAuthor ==
    [ link_predicate |-> Curie("dct", "creator"),
      separator      |-> <<";">>,
      path           |-> AuthorPath \o <<"{safe_value}">>,
      types          |-> << Curie("foaf", "Person") >>,
      literals       |-> (Curie("foaf", "name") :> [str |-> <<"raw">>])
                         @@ (Curie("foaf", "nick")
                               :> [from_column |-> YCol, match_by_index |-> TRUE]) ]

\* values read from column y, default path, no types and no literals
TplFromY ==
    [ link_predicate |-> Curie("dct", "creator"),
      source_column  |-> YCol,
      id_source      |-> [match_by_index |-> TRUE] ]

TemplateConfigs ==
    { [ primary_key |-> KCol, prefixes |-> UserPrefixes,
        entity_templates |-> (XCol :> TplFull) ],
      [ primary_key |-> KCol, prefixes |-> UserPrefixes,
        entity_base_uri |-> <<"http://e.org", "/", "/">>,
        multivalued |-> (XCol :> <<";">>),
        entity_templates |-> (XCol :> TplFull) ],
      [ primary_key |-> KCol, prefixes |-> UserPrefixes,
        multivalued |-> (YCol :> <<";">>),
        entity_templates |-> (XCol :> TplFull) ],
      [ primary_key |-> KCol, prefixes |-> UserPrefixes,
        separator |-> <<";">>, multivalued |-> (YCol :> <<",">>),
        entity_templates |-> (XCol :> TplFull) ],
      [ primary_key |-> KCol, prefixes |-> UserPrefixes,
        entity_base_uri |-> <<"http://e.org">>,
        entity_templates |-> (XCol :> TplAuthor) ],
      [ primary_key |-> KCol, prefixes |-> UserPrefixes,
        entity_templates |-> (XCol :> TplSimple), catalogs |-> <<XCol>> ],
      [ primary_key |-> KCol, prefixes |-> UserPrefixes,
        entity_templates |-> (XCol :> TplFromY) ],
      [ primary_key |-> <<"zz">>, entity_templates |-> (XCol :> TplSimple) ],
      [ primary_key |-> KCol, prefixes |-> UserPrefixes, format |-> <<"c", "s", "v">>,
        entity_templates |-> (XCol :> TplAuthor),
        relations |-> << [from |-> YCol, predicate |-> Curie("dct", "relation")] >> ] }

InitTemplates ==
    /\ user \in TemplateConfigs
    /\ df \in TemplateTables
    /\ cfg = DEFAULT_CFG
    /\ pc = "load"
    /\ pk_index = <<>>
    /\ g = {}
    /\ rel_buffer = <<>>
    /\ row_i = 0
    /\ buf_i = 0
    /\ out = <<>>
    /\ exit_status = <<>>
    /\ call = NoCall

SpecTemplates == InitTemplates /\ [][Next]_vars

(***************************************************************************)
(* Runs of the end-to-end scenario: rows P1 and P2 with the authors in     *)
(* column x, next to a row without key and a row with a reference in       *)
(* column y, under the configuration of the scenario and two others.       *)
(***************************************************************************)
P1       == <<"P", "1">>
P2       == <<"P", "2">>
AliceBob == <<"A", "l", "i", "c", "e", ";", "B", "o", "b">>

ScenarioRowPool ==
    { Row(P1, AliceBob, <<>>),
      Row(P2, AliceBob, <<>>),
      Row(P2, <<>>,     <<>>),
      Row(<<" ">>, AliceBob, <<>>),
      Row(P1, <<"B", "o", "b">>, <<"P", "2", ",", "P", "3">>) }

ScenarioTables == UNION { [1..n -> ScenarioRowPool] : n \in 0..MaxRows }

\* the template of the scenario, with two types
TplPerson ==
    [ link_predicate |-> Curie("dct", "creator"),
      path           |-> <<"p", "e", "r", "s", "o", "n", "/", "{safe_value}">>,
      types          |-> << Curie("foaf", "Person"), Curie("foaf", "Agent") >>,
      literals       |-> (Curie("foaf", "name") :> [str |-> <<"raw">>]) ]

\* the same with one type and the separator declared by the template
TplPersonOwnSeparator ==
    [ link_predicate |-> Curie("dct", "creator"),
      separator      |-> <<";">>,
      path           |-> <<"p", "e", "r", "s", "o", "n", "/", "{safe_value}">>,
      types          |-> << Curie("foaf", "Person") >>,
      literals       |-> (Curie("foaf", "name") :> [str |-> <<"raw">>]) ]

ScenarioConfig ==
    [ primary_key |-> KCol, prefixes |-> UserPrefixes,
      multivalued |-> (XCol :> <<";">>),
      entity_templates |-> (XCol :> TplPerson) ]

ScenarioConfigs ==
    { ScenarioConfig,
      [ primary_key |-> KCol, prefixes |-> UserPrefixes,
        entity_templates |-> (XCol :> TplPersonOwnSeparator),
        relations |-> << [from |-> YCol, predicate |-> Curie("dct", "relation")] >> ],
      [ primary_key |-> <<"zz">>, entity_templates |-> (XCol :> TplPerson) ],
      [ primary_key |-> KCol, prefixes |-> UserPrefixes, format |-> <<"c", "s", "v">>,
        entity_templates |-> (XCol :> TplPerson) ] }

InitScenario ==
    /\ user \in ScenarioConfigs
    /\ df \in ScenarioTables
    /\ cfg = DEFAULT_CFG
    /\ pc = "load"
    /\ pk_index = <<>>
    /\ g = {}
    /\ rel_buffer = <<>>
    /\ row_i = 0
    /\ buf_i = 0
    /\ out = <<>>
    /\ exit_status = <<>>
    /\ call = NoCall

SpecScenario == InitScenario /\ [][Next]_vars

(***************************************************************************)
(* Runs over the separator settings: cells holding "," and ";" under every *)
(* rule for column x, with and without per-column overrides.               *)
(***************************************************************************)
SeparatorRowPool ==
    { Row(<<"a">>, <<"b", ";", "c", ",", "d">>, <<"a", ",", "b", ";", "c">>),
      Row(<<"b">>, <<"a", ";", "b">>,           <<"x", ";", "y", ",", "z">>),
      Row(<<" ">>, <<"a">>,                     <<"b">>),
      Row(<<"a">>, <<"d">>,                     <<>>) }

SeparatorTables == UNION { [1..n -> SeparatorRowPool] : n \in 0..MaxRows }

MultivaluedChoices ==
    { <<>>, XCol :> <<";">>, YCol :> <<";">>, XCol :> <<>> }

\* what handles column x: nothing but the default literal, a catalog, a
\* relation, or a template without or with its own separator or with its
\* values read from column y
RuleChoices ==
    { [catalogs |-> <<>>, relations |-> <<>>, entity_templates |-> <<>>],
      [catalogs |-> <<XCol>>, relations |-> <<>>, entity_templates |-> <<>>],
      [catalogs |-> <<>>,
       relations |-> << [from |-> XCol, predicate |-> Curie("dct", "relation")] >>,
       entity_templates |-> <<>>],
      [catalogs |-> <<>>, relations |-> <<>>, entity_templates |-> (XCol :> TplSimple)],
      [catalogs |-> <<>>, relations |-> <<>>, entity_templates |-> (XCol :> TplAuthor)],
      [catalogs |-> <<>>, relations |-> <<>>, entity_templates |-> (XCol :> TplFromY)] }

SeparatorConfigs ==
    { [ primary_key      |-> KCol,
        prefixes         |-> UserPrefixes,
        multivalued      |-> m,
        catalogs         |-> r.catalogs,
        relations        |-> r.relations,
        entity_templates |-> r.entity_templates ]
      : m \in MultivaluedChoices, r \in RuleChoices }
    \cup { [ primary_key |-> KCol, prefixes |-> UserPrefixes, separator |-> <<";">>,
             multivalued |-> (XCol :> <<",">>), catalogs |-> <<XCol>> ],
           [ primary_key |-> <<"zz">>, multivalued |-> (XCol :> <<";">>) ],
           [ primary_key |-> KCol, format |-> <<"c", "s", "v">>,
             multivalued |-> (XCol :> <<";">>) ] }

InitSeparators ==
    /\ user \in SeparatorConfigs
    /\ df \in SeparatorTables
    /\ cfg = DEFAULT_CFG
    /\ pc = "load"
    /\ pk_index = <<>>
    /\ g = {}
    /\ rel_buffer = <<>>
    /\ row_i = 0
    /\ buf_i = 0
    /\ out = <<>>
    /\ exit_status = <<>>
    /\ call = NoCall

SpecSeparators == InitSeparators /\ [][Next]_vars

(***************************************************************************)
(* Runs over tables and configurations that exercise the catalogs and the  *)
(* default literals: column x holds catalog values, column y literals of   *)
(* every inferred datatype.                                                *)
(***************************************************************************)
Numbers  == <<"5", ",", "+", "5", ",", "-", "5", ",", "1", ".", "5", ",", "-", "1", ".", ",", ".", "5", ",", "-", ",", "0", "0", "7">>
Booleans == <<"T", "r", "u", "e", ",", "F", "A", "L", "S", "E", ",", "t", "R", "u", "E", ",", "t", "r", "u", "e", "e", ",", "q">>
Dates    == <<"2", "0", "2", "4", "-", "0", "1", "-", "0", "1", ",", "2", "0", "2", "4", "-", "0", "2", "-", "3", "0", ",", "2", "0", "2", "4", "-", "1", "-", "1">>
Times    == <<"2", "0", "2", "4", "-", "0", "1", "-", "0", "1", "T", "1", "0", ":", "3", "0", ",", "2", "0", "2", "4", "-", "0", "1", "-", "0", "1", "T", "0", "0", ":", "0", "0">>
Midnight == <<"2", "0", "2", "4", "-", "0", "1", "-", "0", "1", " ", "0", "0", ":", "0", "0", ":", "0", "0", ",", "2", "0", "2", "4", "-", "0", "1", "-", "0", "1", "T", "1", "0">>
Leap     == <<"2", "0", "2", "4", "-", "0", "1", "-", "0", "1", "T", "2", "5", ":", "0", "0", ",", "2", "0", "2", "4", "-", "0", "2", "-", "2", "9">>

ValueRowPool ==
    { Row(<<"a">>, <<"a">>,           Numbers),
      Row(<<"b">>, <<"a", "!">>,      Booleans),
      Row(<<"a">>, <<" ", "a", " ">>, Dates),
      Row(<<"c">>, <<"a", ",", "b">>, Times),
      Row(<<" ">>, <<"b">>,           <<"7">>),
      Row(<<"a", "!">>, <<"!">>,      Midnight),
      Row(<<"!">>, <<"a", "_", "b">>, Leap) }

ValueTables == UNION { [1..n -> ValueRowPool] : n \in 0..MaxRows }

\* a prefix table that redefines a default prefix and names one of its
\* prefixes like an internal namespace
OwnPrefixes == (<<"xsd">> :> <<"http://x.org/">>) @@ (<<"col">> :> <<"http://mine.org/">>)

ValueConfigs ==
    { [ primary_key |-> KCol, prefixes |-> UserPrefixes, catalogs |-> <<XCol>> ],
      [ primary_key |-> KCol, prefixes |-> UserPrefixes, catalogs |-> <<XCol>>,
        property_map |-> (XCol :> Curie("dct", "subject")) @@ (YCol :> Curie("dct", "date")),
        datatype_overrides |-> (YCol :> Curie("xsd", "string")) ],
      [ primary_key |-> KCol, prefixes |-> UserPrefixes ],
      [ primary_key |-> KCol, catalogs |-> <<XCol, YCol>>, lang |-> <<"es">> ],
      [ primary_key |-> KCol, datatype_overrides |-> (XCol :> Curie("xsd", "integer")) ],
      [ primary_key |-> KCol, multivalued |-> (YCol :> <<";">>),
        property_map |-> (YCol :> Curie("dct", "date")) ],
      [ primary_key |-> KCol, datatype_overrides |-> (YCol :> <<>>) ],
      [ primary_key |-> KCol, prefixes |-> OwnPrefixes,
        property_map |-> (YCol :> <<"col", ":", "p">>) ],
      [ primary_key |-> KCol, prefixes |-> UserPrefixes,
        entity_templates |-> (XCol :> TplSimple) ],
      [ primary_key |-> <<"zz">>, catalogs |-> <<XCol>> ],
      [ primary_key |-> KCol, prefixes |-> UserPrefixes, format |-> <<"c", "s", "v">>,
        relations |-> << [from |-> XCol, predicate |-> Curie("dct", "relation")] >> ] }

InitValues ==
    /\ user \in ValueConfigs
    /\ df \in ValueTables
    /\ cfg = DEFAULT_CFG
    /\ pc = "load"
    /\ pk_index = <<>>
    /\ g = {}
    /\ rel_buffer = <<>>
    /\ row_i = 0
    /\ buf_i = 0
    /\ out = <<>>
    /\ exit_status = <<>>
    /\ call = NoCall

SpecValues == InitValues /\ [][Next]_vars

(***************************************************************************)
(* The triple set of a whole run as a function of configuration and table  *)
(* (csv2rdf.py 171-301): catalog triples, the triples of every row that is *)
(* not skipped, and the deferred entries that resolve.                     *)
(***************************************************************************)
RECURSIVE ConcatAll(_)
ConcatAll(seqs) == IF seqs = <<>> THEN <<>> ELSE Head(seqs) \o ConcatAll(Tail(seqs))

KeptRows(c, rows) == {i \in 1..Len(rows) : PkVal(c, rows[i]) # <<>>}

FinalBufferWith(c, rows, index) ==
    ConcatAll([i \in 1..Len(rows) |->
                 IF i \in KeptRows(c, rows)
                 THEN RowDeferred(c, Columns, rows[i], index)
                 ELSE <<>>])

FinalGraphWith(c, rows, index) ==
    CatalogTriples(c, rows)
    \cup UNION { RowTriples(c, Columns, rows[i], index) : i \in KeptRows(c, rows) }
    \cup UNION { DeferredTriples(e, index) : e \in Range(FinalBufferWith(c, rows, index)) }

FinalGraph(c, rows) ==
    LET index == PkIndex(c, rows) IN FinalGraphWith(c, rows, index)

(***************************************************************************)
(* Vocabulary of the properties.                                           *)
(***************************************************************************)
\* the configuration has been loaded and accepted
Accepted == pc \notin {"load", "validate"} /\ ~PkMissing(cfg)

\* rows the row loop has transformed so far
Processed == {i \in 1..row_i : Strip(df[i][cfg.primary_key]) # <<>>}

\* the row and deferred passes are over: g is the final triple set, the one
\* line 304 onwards hands to the serializer
Final == Accepted /\ pc = "serialize"

\* the rule the stated precedence assigns to a column
FirstRule(c, col) ==
    IF col \in DOMAIN c.entity_templates THEN "template"
    ELSE IF \E i \in 1..Len(c.catalogs) : c.catalogs[i] = col THEN "catalog"
    ELSE IF \E i \in 1..Len(c.relations) : c.relations[i].from = col THEN "relation"
    ELSE "literal"

\* the rules configured for a column (the literal rule always applies)
ConfiguredRules(c, col) ==
    {"literal"}
    \cup (IF col \in DOMAIN c.entity_templates THEN {"template"} ELSE {})
    \cup (IF \E i \in 1..Len(c.catalogs) : c.catalogs[i] = col THEN {"catalog"} ELSE {})
    \cup (IF \E i \in 1..Len(c.relations) : c.relations[i].from = col THEN {"relation"} ELSE {})

\* what a rule emits for a cell when it is the one applied
Footprint(rule, c, row, col, subj, index) ==
    CASE rule = "template" -> TemplateTriples(c, row, col, subj)
      [] rule = "catalog"  -> CatalogLinkTriples(c, row, col, subj)
      [] rule = "relation" -> RelationTriples(c, row, col, subj, index)
      [] rule = "literal"  -> LiteralTriples(c, row, col, subj)

NonKeyCells(i) == {col \in Range(Columns) : col # cfg.primary_key /\ df[i][col] # <<>>}

(***************************************************************************)
(* C1: in the row pass every non-key, non-empty cell of a row with a       *)
(* non-empty key is handled by exactly one rule, the first that matches in *)
(* the order template, catalog, relation, literal: what that rule emits is *)
(* in the graph, what any other configured rule would emit is not, and a   *)
(* buffer entry exists only for a relation cell; a column that is both a   *)
(* template and in the property map has no literal on the row subject.     *)
(***************************************************************************)
C1_FirstMatchingRule ==
    Accepted /\ pc # "index" =>
      \A i \in Processed : \A col \in NonKeyCells(i) :
        LET row  == df[i]
            subj == pk_index[Strip(row[cfg.primary_key])]
        IN  /\ Footprint(FirstRule(cfg, col), cfg, row, col, subj, pk_index) \subseteq g
            /\ \A rule \in ConfiguredRules(cfg, col) \ {FirstRule(cfg, col)} :
                 Footprint(rule, cfg, row, col, subj, pk_index) \cap g = {}
            /\ ("relation" \in ConfiguredRules(cfg, col) /\ FirstRule(cfg, col) # "relation") =>
                 \A e \in Range(rel_buffer) : \A r \in Range(cfg.relations) :
                   ~(r.from = col /\ e[1] = subj /\ e[2] = expand(r.predicate, Prefixes(cfg)))
            /\ (col \in DOMAIN cfg.entity_templates /\ col \in DOMAIN cfg.property_map) =>
                 \A t \in g : ~(t[1] = subj /\ t[3].kind = "lit"
                                /\ t[2] = expand(cfg.property_map[col], Prefixes(cfg)))

\* a processed cell whose column is listed under all four rules and whose
\* template rule emitted something
C1_Witness ==
    /\ Accepted /\ pc = "rows"
    /\ \E i \in Processed :
         /\ ConfiguredRules(cfg, XCol) = {"template", "catalog", "relation", "literal"}
         /\ df[i][XCol] # <<>>
         /\ TemplateTriples(cfg, df[i], XCol, pk_index[Strip(df[i][KCol])]) # {}
         /\ TemplateTriples(cfg, df[i], XCol, pk_index[Strip(df[i][KCol])]) \subseteq g

(***************************************************************************)
(* C2: a column listed in several of entity_templates, catalogs, relations *)
(* behaves by its earliest-matching section only.                          *)
(***************************************************************************)
SectionsOf(c, col) == ConfiguredRules(c, col) \ {"literal"}

MultiListed(c) == {col \in Range(Columns) : Cardinality(SectionsOf(c, col)) > 1}

OtherCatalog(e, col) == e # col
OtherRelation(r, col) == r.from # col

\* the configuration with col listed only in its earliest-matching section
EarliestOnly(c, col) ==
    LET KeepCat(e) == OtherCatalog(e, col)
        KeepRel(r) == OtherRelation(r, col)
        rule       == FirstRule(c, col)
    IN  [c EXCEPT !.catalogs  = IF rule = "template" THEN SelectSeq(@, KeepCat) ELSE @,
                  !.relations = IF rule \in {"template", "catalog"}
                                THEN SelectSeq(@, KeepRel) ELSE @]

\* C2 as stated: the run's triple set equals that of the run with the column
\* listed only in its earliest-matching section
C2_AsStated ==
    Final => \A col \in MultiListed(cfg) : g = FinalGraph(EarliestOnly(cfg, col), df)

\* C2 amended: the two triple sets differ exactly by the Catalog Builder's
\* scheme and concept triples for the column, which are emitted for every
\* column listed in catalogs, also when it is a template column
C2_EarliestSectionPlusCatalogBuilder ==
    Final => \A col \in MultiListed(cfg) :
      g = FinalGraph(EarliestOnly(cfg, col), df)
          \cup (IF "catalog" \in SectionsOf(cfg, col)
                THEN CatalogColTriples(cfg, df, col) ELSE {})

\* a finished run where x is a template, a catalog and a relation column and
\* a transformed row has a value in x
C2_Witness ==
    /\ Final
    /\ SectionsOf(cfg, XCol) = {"template", "catalog", "relation"}
    /\ \E i \in Processed : df[i][XCol] # <<>> /\ Strip(df[i][XCol]) # <<>>
    /\ g # FinalGraph(EarliestOnly(cfg, XCol), df)

(***************************************************************************)
(* C3: every row with a non-empty trimmed key yields exactly one subject.  *)
(***************************************************************************)
IsAbsoluteUrl(k) == StartsWith(k, HttpPrefix) \/ StartsWith(k, HttpsPrefix)

\* the subjects typed with a default row class
RowClassIris == { expand(cl, Prefixes(cfg)) : cl \in Range(cfg.classes.list) }
RowSubjects == { t[1] : t \in { u \in g : u[2] = RDF_type /\ u[3].kind = "uri"
                                          /\ u[3].val \in RowClassIris } }

SubjectUnder(root, k) == IF IsAbsoluteUrl(k) THEN k ELSE root \o safe(k)

\* C3 as stated: the subject is the key itself when it is an absolute URL,
\* otherwise entity_base + normalize(key)
C3_AsStated ==
    Accepted /\ pc # "index" =>
      /\ \A i \in Processed :
           pk_index[Strip(df[i][cfg.primary_key])]
             = SubjectUnder(EntityBase(cfg), Strip(df[i][cfg.primary_key]))
      /\ RowSubjects = { SubjectUnder(EntityBase(cfg), Strip(df[i][cfg.primary_key]))
                           : i \in Processed }

\* C3 amended: the subject is the key itself when it is an absolute URL,
\* otherwise base + normalize(key), base being base_uri with its trailing
\* slashes replaced by one; entity_base_uri plays no part in it
C3_SubjectUnderBaseUri ==
    Accepted /\ pc # "index" =>
      /\ \A i \in Processed :
           pk_index[Strip(df[i][cfg.primary_key])]
             = SubjectUnder(Base(cfg), Strip(df[i][cfg.primary_key]))
      /\ RowSubjects = { SubjectUnder(Base(cfg), Strip(df[i][cfg.primary_key]))
                           : i \in Processed }

\* two rows transformed, one keyed by an absolute URL and one not, under an
\* entity base that differs from the base
C3_Witness ==
    /\ Accepted /\ pc = "rows"
    /\ EntityBase(cfg) # Base(cfg)
    /\ \E i \in Processed : IsAbsoluteUrl(Strip(df[i][KCol]))
    /\ \E i \in Processed : ~IsAbsoluteUrl(Strip(df[i][KCol]))
    /\ Cardinality(RowSubjects) = 2

(***************************************************************************)
(* C4: the final triple set does not depend on the order of the rows: it   *)
(* is the triple set of the run on every permutation of the table.         *)
(***************************************************************************)
Permuted(rows, p) == [i \in 1..Len(rows) |-> rows[p[i]]]

\* C4: the final triple set equals the triple set of the run on every
\* permutation of the rows (the identity included: the run is deterministic)
C4_RowOrderIndependent ==
    Final => \A p \in Permutations(1..Len(df)) : FinalGraph(cfg, Permuted(df, p)) = g

\* a finished run on two different rows that share a key after trimming
C4_Witness ==
    /\ Final /\ Len(df) = 2 /\ df[1] # df[2]
    /\ Strip(df[1][KCol]) = Strip(df[2][KCol])
    /\ Strip(df[1][KCol]) # <<>>
    /\ g # {}

(***************************************************************************)
(* C5: the phases run in the order validate, index, catalogs, rows,        *)
(* deferred, serialize, each at most once: pc only moves to the next phase *)
(* (or to the raised exception), the index is written in its phase only,   *)
(* no triple is added before the index is complete, and the serializer is  *)
(* called at most once, after the row loop and the deferred loop are over. *)
(***************************************************************************)
PhaseRank ==
    [load |-> 0, validate |-> 1, index |-> 2, catalogs |-> 3, rows |-> 4,
     deferred |-> 5, serialize |-> 6, returned |-> 7, raised |-> 7, exited |-> 8]

C5_Step ==
    /\ pc' # pc =>
         \/ PhaseRank[pc'] = PhaseRank[pc] + 1
         \/ pc' = "raised" /\ pc \in {"validate", "serialize"}
    /\ pk_index' # pk_index => pc = "index" /\ pc' = "catalogs"
    /\ g' # g => pc \in {"catalogs", "rows", "deferred"} /\ pk_index = PkIndex(cfg, df)
    /\ row_i' # row_i => pc = "rows"
    /\ buf_i' # buf_i => pc = "deferred" /\ row_i = Len(df)
    /\ out' # out =>
         /\ pc = "serialize" /\ out = <<>>
         /\ row_i = Len(df) /\ buf_i = Len(rel_buffer)
         /\ out'[1].triples = g

\* C5: every step of a run respects the phase order
C5_PhaseOrder == [][C5_Step]_vars

\* a run that went through every phase, with rows transformed and deferred
\* entries re-attempted, and handed its triples to the serializer
C5_Witness ==
    /\ pc = "returned" /\ Len(out) = 1
    /\ row_i = 2 /\ buf_i > 0 /\ g # {} /\ DOMAIN pk_index # {}

(***************************************************************************)
(* C6: once built, the index is never modified, and the triple set only    *)
(* grows: every triple present after a step is present after every later   *)
(* step, and the serializer receives all of them.                          *)
(***************************************************************************)
C6_Step ==
    /\ pc \notin {"load", "validate", "index"} => pk_index' = pk_index
    /\ g \subseteq g'
    /\ out' # out => out'[Len(out')].triples = g

\* C6: every step leaves the built index alone and keeps every triple
C6_IndexReadOnlyGraphAppendOnly == [][C6_Step]_vars

\* a serialized run that built a catalog and transformed two rows, all of
\* whose triples reached the serializer
C6_Witness ==
    /\ pc = "returned"
    /\ CatalogTriples(cfg, df) # {}
    /\ Cardinality(Processed) = 2
    /\ DOMAIN pk_index # {}
    /\ CatalogTriples(cfg, df) \subseteq out[1].triples
    /\ out[1].triples # CatalogTriples(cfg, df)

(***************************************************************************)
(* C7: a row whose trimmed key is empty is left out of the index and       *)
(* skipped by the row pass.                                                *)
(***************************************************************************)
EmptyKeyRows == {i \in 1..Len(df) : Strip(df[i][cfg.primary_key]) = <<>>}

RemoveAt(rows, i) == SubSeq(rows, 1, i - 1) \o SubSeq(rows, i + 1, Len(rows))

\* C7 as stated: the final triple set equals that of the run on the table
\* without the row
C7_AsStated ==
    Final => \A i \in EmptyKeyRows :
      /\ pk_index = PkIndex(cfg, RemoveAt(df, i))
      /\ g = FinalGraph(cfg, RemoveAt(df, i))

\* C7 amended: the row is left out of the index and the row pass adds no
\* triple and raises no error for it; the Catalog Builder still reads its
\* cells, so the final triple set is that of the run without the row
\* together with the Catalog Builder's triples for the whole table
C7_EmptyKeyRowSkippedByRowPass ==
    /\ pc = "raised" => (PkMissing(cfg) \/ Lower(cfg.format) \notin DOMAIN SUPPORTED_FORMATS)
    /\ Final => \A i \in EmptyKeyRows :
         /\ pk_index = PkIndex(cfg, RemoveAt(df, i))
         /\ <<>> \notin DOMAIN pk_index
         /\ g = FinalGraph(cfg, RemoveAt(df, i)) \cup CatalogTriples(cfg, df)

\* a finished run over a row with a blank key and cells of its own, next to
\* a row that was transformed
C7_Witness ==
    /\ Final /\ g # {}
    /\ \E i \in EmptyKeyRows : df[i][KCol] # <<>> /\ df[i][XCol] # <<>>
    /\ Processed # {}

(***************************************************************************)
(* C8: for a relation column, each split value that is a known key gives   *)
(* one link triple to that key's subject, and each split value that is no  *)
(* key gives no triple, in the final triple set.                           *)
(***************************************************************************)
\* the trimmed non-empty keys of the table
Keys == { Strip(df[i][cfg.primary_key]) : i \in 1..Len(df) } \ {<<>>}

RelationCells ==
    { <<i, col>> \in Processed \X Range(Columns) :
        col \in NonKeyCells(i) /\ FirstRule(cfg, col) = "relation" }

RelationPredicate(col) ==
    expand((CHOOSE r \in Range(cfg.relations) : r.from = col).predicate, Prefixes(cfg))

\* the objects linked from a subject by a predicate
Linked(subj, pred) == { t[3] : t \in { u \in g : u[1] = subj /\ u[2] = pred } }

\* the split values of the relation cells of the rows sharing a subject
RelationValues(subj, col) ==
    UNION { Range(split_cell(df[rc[1]][col], ColSep(cfg, col)))
              : rc \in { x \in RelationCells :
                           x[2] = col /\ pk_index[Strip(df[x[1]][cfg.primary_key])] = subj } }

\* C8: the links under a relation predicate are exactly those to the subjects
\* of the split values that are keys
C8_RelationLinks ==
    Final => \A rc \in RelationCells :
      LET subj == pk_index[Strip(df[rc[1]][cfg.primary_key])]
      IN  Linked(subj, RelationPredicate(rc[2]))
            = { URIRef(pk_index[v]) : v \in RelationValues(subj, rc[2]) \cap Keys }

\* a finished run with a relation cell holding a known key and an unknown one
C8_Witness ==
    /\ Final
    /\ \E rc \in RelationCells :
         LET vals == Range(split_cell(df[rc[1]][rc[2]], ColSep(cfg, rc[2])))
         IN  vals \cap Keys # {} /\ vals \ Keys # {}

(***************************************************************************)
(* C9: a relation value that is no key when its row is processed adds no   *)
(* triple in the row pass and goes to the deferred buffer; the buffered    *)
(* entries are re-attempted once each, in order, after the last row, and   *)
(* an entry that still does not resolve is dropped without an error.       *)
(***************************************************************************)
\* the entries the transformed rows must have buffered, in order
RECURSIVE ExpectedEntries(_, _, _)
ExpectedEntries(values, subj, pred) ==
    IF values = <<>> THEN <<>>
    ELSE (IF Strip(Head(values)) \in Keys THEN <<>>
          ELSE << <<subj, pred, Strip(Head(values))>> >>)
         \o ExpectedEntries(Tail(values), subj, pred)

ExpectedBuffer ==
    ConcatAll([i \in 1..row_i |->
      ConcatAll([n \in 1..Len(Columns) |->
        IF <<i, Columns[n]>> \in RelationCells
        THEN ExpectedEntries(split_cell(df[i][Columns[n]], ColSep(cfg, Columns[n])),
                             pk_index[Strip(df[i][cfg.primary_key])],
                             RelationPredicate(Columns[n]))
        ELSE <<>>])])

C9_State ==
    /\ pc \in {"load", "validate", "index", "catalogs", "rows"} => buf_i = 0
    /\ (Accepted /\ pc \notin {"index", "raised"}) =>
         /\ rel_buffer = ExpectedBuffer
         /\ \A k \in 1..Len(rel_buffer) :
              Linked(rel_buffer[k][1], rel_buffer[k][2])
                \subseteq { URIRef(pk_index[key]) : key \in Keys }
    /\ pc \in {"serialize", "returned"} => buf_i = Len(rel_buffer)

C9_Step ==
    /\ buf_i' # buf_i =>
         /\ pc = "deferred" /\ row_i = Len(df)
         /\ buf_i' = buf_i + 1 /\ buf_i' <= Len(rel_buffer)
         /\ rel_buffer[buf_i'][3] \notin Keys => g' = g
    /\ pc # "rows" => rel_buffer' = rel_buffer
    /\ pc = "deferred" => pc' \in {"deferred", "serialize"}

\* C9: the buffer holds exactly the unresolved values, and the deferred loop
\* visits each entry once, after the row loop, without raising
C9_DeferredBuffer == [](C9_State) /\ [][C9_Step]_vars

\* the deferred loop has gone through a buffer of two unresolved entries
\* and the run went on to serialization
C9_Witness ==
    /\ pc = "returned"
    /\ Len(rel_buffer) >= 2 /\ buf_i = Len(rel_buffer)
    /\ \A e \in Range(rel_buffer) : e[3] \notin Keys

(***************************************************************************)
(* C10: a configuration error (primary_key absent or naming no column, or  *)
(* an unsupported format name) ends the run with an exception and exit     *)
(* status 1, and the serializer is never called.                           *)
(***************************************************************************)
ConfigError ==
    \/ "primary_key" \notin DOMAIN user
    \/ user.primary_key \notin { Columns[n] : n \in 1..Len(Columns) }
    \/ /\ "format" \in DOMAIN user
       /\ Lower(user.format) \notin DOMAIN SUPPORTED_FORMATS

\* C10: under a configuration error the serializer is never called and the
\* process can only end with status 1
C10_ConfigErrorIsFatal ==
    ConfigError =>
      /\ out = <<>>
      /\ pc # "returned"
      /\ pc = "exited" => exit_status = <<1>>
      /\ pc # "exited" => exit_status = <<>>
      /\ (pc = "validate" /\ PkMissing(cfg)) => g = {}

\* a run with a valid key and an unsupported format that transformed its
\* rows and then exited with status 1 without calling the serializer
C10_Witness ==
    /\ ConfigError /\ ~PkMissing(cfg)
    /\ pc = "exited" /\ exit_status = <<1>>
    /\ g # {} /\ out = <<>>


(***************************************************************************)
(* Vocabulary of the template properties.                                  *)
(***************************************************************************)
\* the separator configured for a column: its override, else the default
OwnSeparator(col) ==
    IF col \in DOMAIN cfg.multivalued THEN cfg.multivalued[col] ELSE cfg.separator

\* the separator of an auxiliary column of the template on col: its
\* override, else the separator of the template column
InheritedSeparator(col, aux) ==
    IF aux \in DOMAIN cfg.multivalued THEN cfg.multivalued[aux] ELSE OwnSeparator(col)

\* the template-bound cells of row i that the row pass dispatches
TemplateCells(i) == DOMAIN cfg.entity_templates \cap NonKeyCells(i)

SubjectOf(i) == pk_index[Strip(df[i][cfg.primary_key])]

\* v_1 .. v_n
SourceValues(i, col) ==
    LET t == cfg.entity_templates[col]
    IN  split_cell(df[i][IF "source_column" \in DOMAIN t THEN t.source_column ELSE col],
                   IF "separator" \in DOMAIN t THEN t.separator ELSE OwnSeparator(col))

HasIdSource(col) ==
    /\ "id_source" \in DOMAIN cfg.entity_templates[col]
    /\ "from_column" \in DOMAIN cfg.entity_templates[col].id_source

IdColumn(col) == cfg.entity_templates[col].id_source.from_column

\* the id cell of row i split with sep (no ids without an id-source)
IdValues(i, col, sep) ==
    IF HasIdSource(col) THEN split_cell(df[i][IdColumn(col)], sep) ELSE <<>>

\* the ids as the expander reads them
ResolvedIdValues(i, col) ==
    IF HasIdSource(col)
    THEN IdValues(i, col, InheritedSeparator(col, IdColumn(col)))
    ELSE <<>>

\* the id for position idx: the idx-th id, else the normalized source value
IdAt(ids, idx, v) == IF idx <= Len(ids) /\ ids[idx] # <<>> THEN ids[idx] ELSE safe(v)

PathOf(col) ==
    IF "path" \in DOMAIN cfg.entity_templates[col]
    THEN cfg.entity_templates[col].path ELSE <<"{safe_value}">>

\* entity_base + path, the path filled in with the idx-th value and the id
\* that ids gives it
ChildWith(i, col, idx, ids) ==
    LET v == SourceValues(i, col)[idx]
    IN  EntityBase(cfg) \o FormatPath(PathOf(col), v, safe(v), IdAt(ids, idx, v))

Child(i, col, idx) == ChildWith(i, col, idx, ResolvedIdValues(i, col))

LinkPredicate(col) == expand(cfg.entity_templates[col].link_predicate, Prefixes(cfg))

HasInverse(col) ==
    /\ "inverse_predicate" \in DOMAIN cfg.entity_templates[col]
    /\ cfg.entity_templates[col].inverse_predicate # <<>>

TypesOf(col) ==
    IF "types" \in DOMAIN cfg.entity_templates[col]
    THEN { URIRef(expand(cfg.entity_templates[col].types[k], Prefixes(cfg)))
             : k \in 1..Len(cfg.entity_templates[col].types) }
    ELSE {}

\* the expansions made so far: <<row, column, position>>
Expansions ==
    UNION { { <<p[1], p[2], idx>> : idx \in 1..Len(SourceValues(p[1], p[2])) }
              : p \in { q \in Processed \X (DOMAIN cfg.entity_templates)
                          : q[2] \in TemplateCells(q[1]) } }

(***************************************************************************)
(* C11: for a template-bound column whose split source values are          *)
(* v_1..v_n, the expander creates for each v_i the child entity_base +     *)
(* path, the path template with {value} replaced by v_i, {safe_value} by   *)
(* safe(v_i) and {id} by the resolved id for position i; each child has    *)
(* one type triple per configured type and no other, the row subject is    *)
(* linked to each child and to nothing else by the link predicate, and the *)
(* inverse link from the child to the row subject is there exactly when an *)
(* inverse predicate is configured.  "Ana;Luis" with path                  *)
(* "author/{safe_value}" gives entity_base + "author/Ana" and              *)
(* entity_base + "author/Luis".                                            *)
(***************************************************************************)
C11_TemplateExpansion ==
    Accepted =>
        /\ \A e \in Expansions :
             LET subj  == SubjectOf(e[1])
                 child == Child(e[1], e[2], e[3])
             IN  /\ \A ty \in TypesOf(e[2]) : <<child, RDF_type, ty>> \in g
                 /\ \A tr \in g : (tr[1] = child /\ tr[2] = RDF_type) => tr[3] \in TypesOf(e[2])
                 /\ <<subj, LinkPredicate(e[2]), URIRef(child)>> \in g
                 /\ HasInverse(e[2]) =>
                      <<child, expand(cfg.entity_templates[e[2]].inverse_predicate, Prefixes(cfg)),
                        URIRef(subj)>> \in g
                 /\ ~HasInverse(e[2]) =>
                      \A tr \in g : ~(tr[1] = child /\ tr[3] = URIRef(subj))
        /\ \A tr \in g :
             \A col \in DOMAIN cfg.entity_templates :
               (tr[2] = LinkPredicate(col) /\ \E i \in Processed : tr[1] = SubjectOf(i))
               => \E e \in Expansions :
                    /\ e[2] = col /\ SubjectOf(e[1]) = tr[1]
                    /\ tr[3] = URIRef(Child(e[1], e[2], e[3]))
        /\ \A i \in Processed :
             ( /\ XCol \in TemplateCells(i)
               /\ PathOf(XCol) = AuthorPath \o <<"{safe_value}">>
               /\ df[i][XCol] = Ana \o <<";">> \o Luis
               /\ SourceValues(i, XCol) = <<Ana, Luis>> )
             => { tr[3] : tr \in { t \in g : t[1] = SubjectOf(i) /\ t[2] = LinkPredicate(XCol) } }
                  = { URIRef(EntityBase(cfg) \o AuthorPath \o Ana),
                      URIRef(EntityBase(cfg) \o AuthorPath \o Luis) }

\* the run of the example is over: row c with "Ana;Luis" has its two
\* children under the entity base, typed and linked, with no inverse link
C11_Witness ==
    /\ Final
    /\ EntityBase(cfg) = <<"http://e.org", "/">>
    /\ \E i \in Processed :
         /\ df[i][XCol] = Ana \o <<";">> \o Luis
         /\ <<SubjectOf(i), DctNs \o <<"creator">>,
              URIRef(<<"http://e.org", "/">> \o AuthorPath \o Ana)>> \in g
         /\ <<SubjectOf(i), DctNs \o <<"creator">>,
              URIRef(<<"http://e.org", "/">> \o AuthorPath \o Luis)>> \in g
         /\ << <<"http://e.org", "/">> \o AuthorPath \o Luis, RDF_type,
               URIRef(FoafNs \o <<"Person">>)>> \in g

\* the expansions of templates that have an id-source
IdExpansions == { e \in Expansions : HasIdSource(e[2]) }

\* the row pass has raised no error: an error, if any, came later
RowPassClean == pc = "raised" => (row_i = Len(df) /\ buf_i = Len(rel_buffer))

(***************************************************************************)
(* C12 as stated: with an id-source, the id values are the id column's     *)
(* cell split with that column's own separator (its override, else the     *)
(* default separator); the id for {id} at position i is the i-th id value, *)
(* or safe(v_i) when the id list has no non-empty element there, and       *)
(* processing continues without error.                                     *)
(***************************************************************************)
C12_AsStated ==
    Accepted =>
        /\ RowPassClean
        /\ \A e \in IdExpansions :
             <<SubjectOf(e[1]), LinkPredicate(e[2]),
               URIRef(ChildWith(e[1], e[2], e[3],
                                IdValues(e[1], e[2], OwnSeparator(IdColumn(e[2])))))>> \in g

(***************************************************************************)
(* C12 amended: with an id-source, the id values are the id column's cell  *)
(* split with the id column's separator override when it has one and       *)
(* otherwise with the separator of the template column (that column's      *)
(* override, else the default); the id for {id} at position i is the i-th  *)
(* id value, or safe(v_i) when the id list has no non-empty element there; *)
(* the row subject is linked to the children built with these ids and to   *)
(* no others, and the row pass raises no error.                            *)
(***************************************************************************)
C12_IdSourceInheritsSeparator ==
    Accepted =>
        /\ RowPassClean
        /\ \A e \in IdExpansions :
             LET v    == SourceValues(e[1], e[2])[e[3]]
                 ids  == IdValues(e[1], e[2], InheritedSeparator(e[2], IdColumn(e[2])))
                 id   == IF e[3] <= Len(ids) /\ ids[e[3]] # <<>> THEN ids[e[3]] ELSE safe(v)
             IN  <<SubjectOf(e[1]), LinkPredicate(e[2]),
                   URIRef(EntityBase(cfg) \o FormatPath(PathOf(e[2]), v, safe(v), id))>> \in g
        /\ \A tr \in g :
             \A col \in DOMAIN cfg.entity_templates :
               (HasIdSource(col) /\ tr[2] = LinkPredicate(col)
                  /\ \E i \in Processed : tr[1] = SubjectOf(i))
               => \E e \in IdExpansions :
                    /\ e[2] = col /\ SubjectOf(e[1]) = tr[1]
                    /\ tr[3] = URIRef(ChildWith(e[1], e[2], e[3],
                                  IdValues(e[1], e[2], InheritedSeparator(e[2], IdColumn(e[2])))))

\* the template column has its own separator ";" and the id column has
\* none: the cell "1,2" of the id column is one id, given to the first
\* value, and the second value falls back to its normalized form
C12_Witness ==
    /\ Final
    /\ XCol \in DOMAIN cfg.multivalued /\ YCol \notin DOMAIN cfg.multivalued
    /\ \E i \in Processed :
         /\ df[i][XCol] = <<"u", ";", "v">> /\ df[i][YCol] = <<"1", ",", "2">>
         /\ <<SubjectOf(i), DctNs \o <<"creator">>,
              URIRef(EntityBase(cfg) \o <<"u", "/", "1", ",", "2", "/", "u">>)>> \in g
         /\ <<SubjectOf(i), DctNs \o <<"creator">>,
              URIRef(EntityBase(cfg) \o <<"v", "/", "v", "/", "v">>)>> \in g

(***************************************************************************)
(* Literal rules of a template.                                            *)
(***************************************************************************)
\* the literal values one rule gives the child of position idx of row i
ExpectedLiteralValues(i, col, idx, lit_pred) ==
    LET rule == cfg.entity_templates[col].literals[lit_pred]
        v    == SourceValues(i, col)[idx]
    IN  IF "str" \in DOMAIN rule
        THEN (CASE rule.str = <<"raw">>  -> {v}
                [] rule.str = <<"safe">> -> {safe(v)})
        ELSE IF "match_by_index" \in DOMAIN rule /\ rule.match_by_index
        THEN LET aux == split_cell(df[i][rule.from_column],
                                   InheritedSeparator(col, rule.from_column))
             IN  IF idx <= Len(aux) THEN {aux[idx]} ELSE {}
        ELSE {Strip(df[i][rule.from_column])} \ {<<>>}

LiteralRules(col) ==
    IF "literals" \in DOMAIN cfg.entity_templates[col]
    THEN DOMAIN cfg.entity_templates[col].literals ELSE {}

(***************************************************************************)
(* C13: for each child generated from source value v_i, each literal rule  *)
(* of the template emits: mode raw, the literal v_i verbatim; mode safe,   *)
(* the literal safe(v_i); a cross-column rule with match_by_index true,    *)
(* the i-th split value of from_column, and nothing when that column has   *)
(* fewer values; a cross-column rule with match_by_index false, the        *)
(* trimmed whole cell of from_column, the same for every child of the row, *)
(* and nothing when it is empty.  The literals carry the configured        *)
(* language, and a child has no other literal under the rule's predicate   *)
(* than those its expansions give it.                                      *)
(***************************************************************************)
C13_TemplateLiterals ==
    Accepted =>
        \A e \in Expansions :
          \A lp \in LiteralRules(e[2]) :
            LET child == Child(e[1], e[2], e[3])
                same  == { f \in Expansions : f[2] = e[2] /\ Child(f[1], f[2], f[3]) = child }
            IN  { tr[3] : tr \in { t \in g : t[1] = child
                                              /\ t[2] = expand(lp, Prefixes(cfg)) } }
                = { LangLiteral(x, cfg.lang)
                      : x \in UNION { ExpectedLiteralValues(f[1], f[2], f[3], lp) : f \in same } }

\* a row with two source values and one value in column y: the first child
\* has the four literals, the second has no positional literal but the
\* same whole-cell literal
C13_Witness ==
    /\ Final
    /\ cfg.multivalued = <<>> /\ cfg.separator = <<",">>
    /\ Len(df) = 1
    /\ df[1][XCol] = <<"u", ",", " ", "w", "!">> /\ df[1][YCol] = <<"7">>
    /\ LET c1 == EntityBase(cfg) \o <<"u", "/", "7", "/", "u">>
           c2 == EntityBase(cfg) \o <<"w", "!", "/", "w", "/", "w">>
       IN  /\ <<c1, FoafNs \o <<"name">>, LangLiteral(<<"u">>, <<"en">>)>> \in g
           /\ <<c1, FoafNs \o <<"nick">>, LangLiteral(<<"7">>, <<"en">>)>> \in g
           /\ <<c2, FoafNs \o <<"name">>, LangLiteral(<<"w", "!">>, <<"en">>)>> \in g
           /\ <<c2, DctNs \o <<"identifier">>, LangLiteral(<<"w">>, <<"en">>)>> \in g
           /\ <<c2, DctNs \o <<"title">>, LangLiteral(<<"7">>, <<"en">>)>> \in g
           /\ \A tr \in g : ~(tr[1] = c2 /\ tr[2] = FoafNs \o <<"nick">>)

(***************************************************************************)
(* Vocabulary of the end-to-end scenario.                                  *)
(***************************************************************************)
\* the run of the scenario is over; authors says which rows hold "Alice;Bob"
ScenarioRun(authors) ==
    /\ Final
    /\ user = ScenarioConfig
    /\ Len(df) = 2
    /\ df[1][KCol] = P1 /\ df[2][KCol] = P2
    /\ \A i \in 1..2 : /\ df[i][YCol] = <<>>
                       /\ df[i][XCol] = IF i \in authors THEN AliceBob ELSE <<>>

ScenarioRows     == {Base(cfg) \o P1, Base(cfg) \o P2}
ScenarioChildren == {EntityBase(cfg) \o <<"p", "e", "r", "s", "o", "n", "/">> \o n
                       : n \in {<<"A", "l", "i", "c", "e">>, <<"B", "o", "b">>}}

RowTypeStatements   == {t \in g : t[1] \in ScenarioRows /\ t[2] = RDF_type}
ChildTypeStatements == {t \in g : t[1] \in ScenarioChildren /\ t[2] = RDF_type}
CreatorLinks        == {t \in g : /\ t[1] \in ScenarioRows
                                  /\ t[2] = DctNs \o <<"creator">>
                                  /\ t[3].kind = "uri" /\ t[3].val \in ScenarioChildren}
NameLiterals        == {t \in g : /\ t[1] \in ScenarioChildren
                                  /\ t[2] = FoafNs \o <<"name">>
                                  /\ t[3].kind = "lit"}

ScenarioCounts(rowTypes, childTypes, links, names) ==
    /\ Cardinality(RowTypeStatements) = rowTypes
    /\ Cardinality(ChildTypeStatements) = childTypes
    /\ Cardinality(CreatorLinks) = links
    /\ Cardinality(NameLiterals) = names
    /\ Cardinality(g) = rowTypes + childTypes + links + names

(***************************************************************************)
(* C23 as stated: for the table of the two rows P1 and P2 whose column     *)
(* authors holds "Alice;Bob", mapped by an entity template with link       *)
(* predicate dct:creator, path "person/{safe_value}" and literal foaf:name *)
(* = raw, the run produces exactly 2 row-type triples, 4 author-type       *)
(* triples, 2 dct:creator links and 2 foaf:name literals, and the triple   *)
(* set has exactly the sum of these counts.                                *)
(***************************************************************************)
C23_AsStated == ScenarioRun({1, 2}) => ScenarioCounts(2, 4, 2, 2)

(***************************************************************************)
(* C23, amended: when both rows hold "Alice;Bob" the run produces 2 row-   *)
(* type triples, 4 author-type triples, 4 dct:creator links (each row is   *)
(* linked to both children) and 2 foaf:name literals, 12 triples in all;   *)
(* the stated 2 links and total of 10 are those of the table in which only *)
(* one of the two rows holds "Alice;Bob".                                  *)
(***************************************************************************)
C23_ScenarioCounts ==
    /\ ScenarioRun({1, 2}) => ScenarioCounts(2, 4, 4, 2)
    /\ ScenarioRun({1}) => ScenarioCounts(2, 4, 2, 2)

\* the scenario has run with both rows holding the authors: 12 triples
C23_Witness == ScenarioRun({1, 2}) /\ Cardinality(g) = 12

(***************************************************************************)
(* Vocabulary of the catalog and datatype properties.                      *)
(***************************************************************************)
\* the Catalog Builder has run
CatalogBuilt == Accepted /\ pc \in {"rows", "deferred", "serialize"}

\* the distinct non-empty trimmed values of a column over all rows
DistinctValues(col) == {Strip(df[i][col]) : i \in 1..Len(df)} \ {<<>>}

\* the concept-scheme entities labelled with a column name
SchemesLabelled(col) ==
    { n \in {t[1] : t \in g} :
        /\ <<n, RDF_type, URIRef(SKOS_ConceptScheme)>> \in g
        /\ <<n, RDFS_label, LangLiteral(col, cfg.lang)>> \in g }

\* the members of a scheme and the preferred labels of a concept
ConceptsIn(s) == { t[1] : t \in { u \in g : u[2] = SKOS_inScheme /\ u[3] = URIRef(s) } }
LabelsOf(n)   == { t[3] : t \in { u \in g : u[1] = n /\ u[2] = SKOS_prefLabel } }

(***************************************************************************)
(* C14: for each configured catalog column the Catalog Builder emits one   *)
(* concept scheme labelled with the column name and, for each distinct     *)
(* non-empty trimmed value of the column over all rows, exactly one        *)
(* concept with a language-tagged preferred label and a membership link to *)
(* the scheme; the same value in several rows yields one concept and       *)
(* distinct values yield distinct concepts.  As stated: the values and the *)
(* concepts of the scheme are in one-to-one correspondence, each concept   *)
(* carrying the label of its value and no other.                           *)
(***************************************************************************)
C14_AsStated ==
    CatalogBuilt =>
        \A col \in Range(cfg.catalogs) :
          \E s \in SchemesLabelled(col) :
            /\ SchemesLabelled(col) = {s}
            /\ \E conceptOf \in [DistinctValues(col) -> ConceptsIn(s)] :
                 /\ \A v, w \in DistinctValues(col) : conceptOf[v] = conceptOf[w] => v = w
                 /\ \A n \in ConceptsIn(s) : \E v \in DistinctValues(col) : conceptOf[v] = n
                 /\ \A v \in DistinctValues(col) :
                      /\ <<conceptOf[v], RDF_type, URIRef(SKOS_Concept)>> \in g
                      /\ LabelsOf(conceptOf[v]) = {LangLiteral(v, cfg.lang)}

\* the columns the default-literal rule handles, and the predicate it uses
LiteralCells(i) == {col \in NonKeyCells(i) : FirstRule(cfg, col) = "literal"}

LiteralPredicate(col) ==
    IF col \in DOMAIN cfg.property_map /\ cfg.property_map[col] # <<>>
    THEN expand(cfg.property_map[col], Prefixes(cfg))
    ELSE Prefixes(cfg)[<<"col">>] \o safe(col)

\* a datatype override is configured for the column
HasOverride(col) ==
    col \in DOMAIN cfg.datatype_overrides /\ cfg.datatype_overrides[col] # <<>>

\* the stated classification of a trimmed value, for a given set of signs
WithoutSign(v, signs) == IF v # <<>> /\ Head(v) \in signs THEN Tail(v) ELSE v

DigitsDotDigits(u) ==
    \E i \in 1..Len(u) :
        u[i] = "." /\ AllDigits(SubSeq(u, 1, i - 1)) /\ AllDigits(SubSeq(u, i + 1, Len(u)))

Parses(v) == fromisoformat(v) # "ValueError"

NonMidnightTime(v) ==
    Len(v) > 11 /\ \E i \in 12..Len(v) : v[i] \in Digits \ {"0"}

Classified(value, signs) ==
    LET v == Strip(value)
    IN  CASE AllDigits(WithoutSign(v, signs))       -> XSD_NS \o <<"integer">>
          [] ~AllDigits(WithoutSign(v, signs))
             /\ DigitsDotDigits(WithoutSign(v, signs)) -> XSD_NS \o <<"decimal">>
          [] ~AllDigits(WithoutSign(v, signs))
             /\ ~DigitsDotDigits(WithoutSign(v, signs))
             /\ Lower(v) \in {<<"t", "r", "u", "e">>, <<"f", "a", "l", "s", "e">>}
                                                    -> XSD_NS \o <<"boolean">>
          [] OTHER -> IF Parses(v) /\ NonMidnightTime(v) THEN XSD_NS \o <<"dateTime">>
                      ELSE IF Parses(v) THEN XSD_NS \o <<"date">>
                      ELSE NoneVal

ExpectedDatatype(col, v, signs) ==
    IF HasOverride(col) THEN expand(cfg.datatype_overrides[col], Prefixes(cfg))
    ELSE Classified(v, signs)

\* every value of every default-literal cell the row pass has handled is in
\* the graph as a literal of the row subject with the expected datatype and
\* with no other
DatatypesFollow(signs) ==
    Accepted =>
        \A i \in Processed :
          \A col \in LiteralCells(i) :
            \A v \in Range(split_cell(df[i][col], OwnSeparator(col))) :
              { t[3].dt : t \in { u \in g : /\ u[1] = SubjectOf(i)
                                            /\ u[2] = LiteralPredicate(col)
                                            /\ u[3].kind = "lit"
                                            /\ u[3].val = v } }
              = { ExpectedDatatype(col, v, signs) }

(***************************************************************************)
(* C15 as stated: the datatype of every default-literal triple is the      *)
(* column's configured override, expanded, whenever one is configured;     *)
(* otherwise it is inferred from the trimmed value in the precedence       *)
(* integer (optional sign, "+" or "-", and digits), decimal (optional      *)
(* sign, digits, ".", digits), boolean (true/false in any case), date-time *)
(* when the value parses with a non-midnight time, date when it parses     *)
(* otherwise, and no datatype when nothing matches.                        *)
(***************************************************************************)
C15_AsStated == DatatypesFollow({"+", "-"})

(***************************************************************************)
(* C15, amended: as above, the optional sign of an integer or a decimal    *)
(* being a minus sign only; a value with a leading "+" is not a number.    *)
(***************************************************************************)
C15_MinusSignOnly == DatatypesFollow({"-"})

\* a row whose cell holds signed and unsigned numerals, and one whose cell
\* holds a date-time next to a midnight, both without an override: "-5" is
\* an integer, "+5" has no datatype, 10:30 is a date-time, 00:00 a date
C15_Witness ==
    /\ Final
    /\ cfg.datatype_overrides = <<>> /\ cfg.catalogs = <<>> /\ cfg.multivalued = <<>>
    /\ Len(df) = 2 /\ df[1][YCol] = Numbers /\ df[2][YCol] = Times
    /\ LET p == Prefixes(cfg)[<<"col">>] \o <<"y">>
           T(v) == <<"2", "0", "2", "4", "-", "0", "1", "-", "0", "1", "T">> \o v
       IN  /\ <<SubjectOf(1), p, TypedLiteral(<<"-", "5">>, XSD_NS \o <<"integer">>)>> \in g
           /\ <<SubjectOf(1), p, TypedLiteral(<<"+", "5">>, NoneVal)>> \in g
           /\ <<SubjectOf(1), p, TypedLiteral(<<"1", ".", "5">>, XSD_NS \o <<"decimal">>)>> \in g
           /\ <<SubjectOf(2), p, TypedLiteral(T(<<"1", "0", ":", "3", "0">>),
                                              XSD_NS \o <<"dateTime">>)>> \in g
           /\ <<SubjectOf(2), p, TypedLiteral(T(<<"0", "0", ":", "0", "0">>),
                                              XSD_NS \o <<"date">>)>> \in g

(***************************************************************************)
(* C22: the effective configuration of a run is the defaults with the user *)
(* configuration merged over them, and user values always override: every  *)
(* entry the user configuration supplies has the user's value in the       *)
(* configuration the run uses (a class string being the list of its        *)
(* classes), and every namespace prefix it defines, whatever its short     *)
(* name, has the user's namespace in the prefix table the run uses.        *)
(***************************************************************************)
C22_AsStated ==
    Accepted =>
        /\ \A k \in DOMAIN DEFAULT_CFG \ DOMAIN user : cfg[k] = DEFAULT_CFG[k]
        /\ \A k \in DOMAIN user :
             IF k = "classes" /\ "str" \in DOMAIN user[k]
             THEN "list" \in DOMAIN cfg[k]
             ELSE cfg[k] = user[k]
        /\ "prefixes" \in DOMAIN user =>
             \A p \in DOMAIN user.prefixes :
                 /\ p \in DOMAIN Prefixes(cfg)
                 /\ Prefixes(cfg)[p] = user.prefixes[p]

(***************************************************************************)
(* Vocabulary of the index properties.                                     *)
(***************************************************************************)
\* the Primary-Key Index has been built
IndexBuilt == Accepted /\ pc # "index"

\* the trimmed key of a row, and the non-empty trimmed keys of the table
KeyOf(i)  == Strip(df[i][cfg.primary_key])
TableKeys == {KeyOf(i) : i \in 1..Len(df)} \ {<<>>}

\* the last row holding a key
LastRowOf(k) ==
    CHOOSE i \in 1..Len(df) : KeyOf(i) = k /\ \A j \in 1..Len(df) : KeyOf(j) = k => j <= i

(***************************************************************************)
(* C24: after the index build the domain of the Primary-Key Index is       *)
(* exactly the set of the non-empty trimmed primary-key values of the      *)
(* table; duplicate keys raise no error and leave one entry, that of the   *)
(* last row with the key; the index lookup of the row pass succeeds for    *)
(* every row it processes (the run raises nothing before serialization),   *)
(* and all rows sharing a key emit their triples under the same subject,   *)
(* the entry of the key.                                                   *)
(***************************************************************************)
C24_PrimaryKeyIndex ==
    IndexBuilt =>
        /\ DOMAIN pk_index = TableKeys
        /\ \A k \in TableKeys :
             pk_index[k] = pk_to_uri(KeyOf(LastRowOf(k)), Base(cfg))
        /\ pc = "raised" => Lower(cfg.format) \notin DOMAIN SUPPORTED_FORMATS
        /\ \A i \in Processed :
             /\ KeyOf(i) \in DOMAIN pk_index
             /\ \A cl \in Range(cfg.classes.list) :
                  <<pk_index[KeyOf(i)], RDF_type, URIRef(expand(cl, Prefixes(cfg)))>> \in g
             /\ \A col \in NonKeyCells(i) :
                  Footprint(FirstRule(cfg, col), cfg, df[i], col, pk_index[KeyOf(i)], pk_index)
                      \subseteq g

\* two rows whose keys are equal once trimmed have been processed: one
\* entry, and the cells of both rows are statements about its subject
C24_Witness ==
    /\ Final
    /\ Len(df) = 2
    /\ df[1][KCol] = <<"a">> /\ df[2][KCol] = <<" ", "a", " ">>
    /\ DOMAIN pk_index = {<<"a">>}
    /\ cfg.catalogs = <<>> /\ cfg.relations = <<>> /\ cfg.entity_templates = <<>>
    /\ cfg.property_map = <<>>
    /\ \E t \in g : t[1] = pk_index[<<"a">>] /\ t[3].kind = "lit" /\ t[3].val = <<"b">>
    /\ \E t \in g : t[1] = pk_index[<<"a">>] /\ t[3].kind = "lit" /\ t[3].val = <<"1">>

(***************************************************************************)
(* C25: the primary-key value uniquely identifies a row's subject: any two *)
(* rows whose trimmed, non-empty primary-key values differ are assigned    *)
(* different subject identifiers by the Primary-Key Index.                 *)
(***************************************************************************)
C25_AsStated ==
    IndexBuilt =>
        \A i, j \in 1..Len(df) :
            (KeyOf(i) # <<>> /\ KeyOf(j) # <<>> /\ KeyOf(i) # KeyOf(j))
                => pk_index[KeyOf(i)] # pk_index[KeyOf(j)]

\* no row subject is the bare base URI
SubjectsHaveToken == \A k \in DOMAIN pk_index : pk_index[k] # Base(cfg)

\* no declared concept has an identifier that ends at the "/" after the
\* column token
ConceptsHaveToken ==
    \A t \in g : t[2] = SKOS_inScheme => t[1][Len(t[1])] # "/"

\* no child has been made from a source value whose token is empty
ChildrenHaveToken ==
    \A e \in Expansions : safe(SourceValues(e[1], e[2])[e[3]]) # <<>>

(***************************************************************************)
(* C26: the callers of the normalizer guard against an empty token: in no  *)
(* run is a row subject, a template child identifier or a catalog concept  *)
(* identifier built from an empty normalized token; no row subject is the  *)
(* bare base URI and no child identifier ends at the path prefix.          *)
(***************************************************************************)
C26_AsStated ==
    Accepted => (SubjectsHaveToken /\ ConceptsHaveToken /\ ChildrenHaveToken)

(***************************************************************************)
(* Vocabulary of the separator property.                                   *)
(***************************************************************************)
\* the processed rows that share the subject of row i and have a cell in col
SameSubjectCells(i, col) ==
    {j \in Processed : SubjectOf(j) = SubjectOf(i) /\ col \in NonKeyCells(j)}

\* the values of these cells, each cell split with the column's separator
CellValues(i, col) ==
    UNION { Range(split_cell(df[j][col], OwnSeparator(col))) : j \in SameSubjectCells(i, col) }

\* the children of these cells, each made from the template's source values
CellChildren(i, col) ==
    UNION { { Child(j, col, idx) : idx \in 1..Len(SourceValues(j, col)) }
              : j \in SameSubjectCells(i, col) }

\* the keys buffered for a subject under a predicate
Buffered(subj, pred) ==
    { rel_buffer[n][3] : n \in { m \in 1..Len(rel_buffer) :
                                   rel_buffer[m][1] = subj /\ rel_buffer[m][2] = pred } }

(***************************************************************************)
(* C27: separator resolution.  A catalog, relation or literal cell is      *)
(* split with the per-column separator override of its column when one is  *)
(* configured and with the default separator otherwise: the row subject    *)
(* has exactly the concept links, the relation links or buffer entries,    *)
(* or the literals of the values so split.  A template's source values are *)
(* split with the template's own separator when it declares one and        *)
(* otherwise with the separator (override or default) of the template-     *)
(* bound column: the row subject is linked to exactly the children of the  *)
(* values so split.                                                        *)
(***************************************************************************)
C27_SeparatorResolution ==
    Accepted =>
        \A i \in Processed :
          \A col \in NonKeyCells(i) :
            LET subj == SubjectOf(i)
                rule == FirstRule(cfg, col)
            IN  /\ rule = "literal" =>
                     { t[3].val : t \in { u \in g : /\ u[1] = subj
                                                     /\ u[2] = LiteralPredicate(col)
                                                     /\ u[3].kind = "lit" } }
                     = CellValues(i, col)
                /\ rule = "catalog" =>
                     Linked(subj, LiteralPredicate(col))
                     = { URIRef(ConceptUri(cfg, col, v)) : v \in CellValues(i, col) }
                /\ rule = "relation" =>
                     /\ Linked(subj, RelationPredicate(col))
                        = { URIRef(pk_index[v]) : v \in CellValues(i, col) \cap DOMAIN pk_index }
                     /\ Buffered(subj, RelationPredicate(col))
                        = CellValues(i, col) \ DOMAIN pk_index
                /\ rule = "template" =>
                     Linked(subj, LinkPredicate(col))
                     = { URIRef(ch) : ch \in CellChildren(i, col) }

\* the cell "b;c,d" of a catalog column whose override is ";" and the cell
\* "a,b;c" of a literal column without override have been handled: the
\* first gave the values "b" and "c,d", the second "a" and "b;c"
C27_Witness ==
    /\ Final
    /\ cfg.multivalued = (XCol :> <<";">>) /\ cfg.separator = <<",">>
    /\ cfg.catalogs = <<XCol>>
    /\ Len(df) = 1 /\ df[1][XCol] = <<"b", ";", "c", ",", "d">>
    /\ df[1][YCol] = <<"a", ",", "b", ";", "c">>
    /\ Linked(SubjectOf(1), LiteralPredicate(XCol))
         = { URIRef(ConceptUri(cfg, XCol, <<"b">>)),
             URIRef(ConceptUri(cfg, XCol, <<"c", ",", "d">>)) }
    /\ { t[3].val : t \in { u \in g : u[1] = SubjectOf(1) /\ u[2] = LiteralPredicate(YCol) } }
         = { <<"a">>, <<"b", ";", "c">> }

(***************************************************************************)
(* C28: the deferred relation pass never changes the result: the triple    *)
(* set after the deferred pass is the triple set at the end of the row     *)
(* pass (no step of the pass changes it), because a key missing from the   *)
(* index during the row pass, as every buffered key is, is still missing   *)
(* in the deferred pass.                                                   *)
(***************************************************************************)
C28_Step ==
    pc = "deferred" =>
        /\ g' = g
        /\ \A n \in 1..Len(rel_buffer) : rel_buffer[n][3] \notin DOMAIN pk_index
        /\ pk_index' = pk_index

C28_DeferredPassChangesNothing == [][C28_Step]_vars

\* the deferred pass has gone through a buffer of two entries
C28_Witness ==
    /\ pc = "serialize"
    /\ Len(rel_buffer) = 2 /\ buf_i = 2
    /\ g # {}

\* the predicate that links a row subject to the concepts of a catalog column
CatalogPredicate(col) ==
    IF col \in DOMAIN cfg.property_map
    THEN expand(cfg.property_map[col], Prefixes(cfg))
    ELSE Prefixes(cfg)[<<"col">>] \o safe(col)

\* the concepts the row pass has linked row i to through a catalog column
LinkedConcepts(i, col) ==
    { t[3].val : t \in { u \in g : /\ u[1] = SubjectOf(i)
                                   /\ u[2] = CatalogPredicate(col)
                                   /\ u[3].kind = "uri" } }

\* n is declared as a concept of the column's scheme
DeclaredConcept(n, col) ==
    /\ <<n, RDF_type, URIRef(SKOS_Concept)>> \in g
    /\ LabelsOf(n) # {}
    /\ \E s \in SchemesLabelled(col) : n \in ConceptsIn(s)

(***************************************************************************)
(* C29: catalog referential integrity: every concept identifier that the   *)
(* row pass links a row subject to through a catalog column is one the     *)
(* Catalog Builder declared as a concept for that column (typed as         *)
(* concept, with a preferred label and its scheme membership), including   *)
(* when the cell contains the column's separator.                          *)
(***************************************************************************)
C29_AsStated ==
    Accepted =>
        \A i \in Processed :
          \A col \in NonKeyCells(i) :
            FirstRule(cfg, col) = "catalog" =>
                \A n \in LinkedConcepts(i, col) : DeclaredConcept(n, col)

(***************************************************************************)
(* Vocabulary of the helper-call properties.                               *)
(***************************************************************************)
\* the helper fn has been called and has returned
Returned(fn) == pc = "helpers" /\ call.fn = fn /\ call.done

\* sep occurs in cell at position p
Occurs(cell, sep, p) ==
    p + Len(sep) - 1 <= Len(cell) /\ SubSeq(cell, p, p + Len(sep) - 1) = sep

\* where a non-empty separator cuts a cell: its occurrences from left to
\* right, an occurrence overlapping an earlier cut not counting
Cuts(cell, sep) ==
    LET occ == {p \in 1..Len(cell) : Occurs(cell, sep, p)}
    IN  CHOOSE C \in SUBSET occ :
          \A p \in occ : p \in C <=> ~ \E q \in C : q < p /\ p < q + Len(sep)

\* the pieces between the cuts, empty ones included
Pieces(cell, sep) ==
    LET C == Cuts(cell, sep)
        CutAt(k) == CHOOSE p \in C : Cardinality({q \in C : q < p}) = k - 1
    IN  [k \in 1..(Cardinality(C) + 1) |->
           SubSeq(cell,
                  IF k = 1 THEN 1 ELSE CutAt(k - 1) + Len(sep),
                  IF k = Cardinality(C) + 1 THEN Len(cell) ELSE CutAt(k) - 1)]

IsNonEmpty(x) == x # <<>>

ExampleCell == <<"a", ";", " ", "b", " ", ";", "c">>

(***************************************************************************)
(* C16: split_cell(cell, sep) with an empty separator returns the one-     *)
(* element list holding the trimmed whole cell; with a non-empty separator *)
(* it returns, in their original order, the trimmed pieces of the cell     *)
(* split on sep with every empty piece dropped, so that no returned        *)
(* element is empty or has leading or trailing whitespace; "a; b ;c" on    *)
(* ";" gives ["a", "b", "c"].                                              *)
(***************************************************************************)
C16_SplitCell ==
    Returned("split_cell") =>
        LET cell == call.args[1]
            sep  == call.args[2]
        IN  /\ sep = <<>> => call.ret = <<Strip(cell)>>
            /\ sep # <<>> =>
                 /\ call.ret = SelectSeq([k \in 1..Len(Pieces(cell, sep)) |->
                                            Strip(Pieces(cell, sep)[k])],
                                         IsNonEmpty)
                 /\ \A k \in 1..Len(call.ret) :
                      /\ call.ret[k] # <<>>
                      /\ Head(call.ret[k]) \notin Whitespace
                      /\ call.ret[k][Len(call.ret[k])] \notin Whitespace
            /\ (cell = ExampleCell /\ sep = <<";">>)
                 => call.ret = << <<"a">>, <<"b">>, <<"c">> >>

\* the example of the claim has been split
C16_Witness ==
    /\ Returned("split_cell")
    /\ call.args = <<ExampleCell, <<";">> >>
    /\ call.ret = << <<"a">>, <<"b">>, <<"c">> >>

(***************************************************************************)
(* C17: expand(curie, prefixes): when the text has a ":" the part before   *)
(* the first ":" is the prefix and the part after it the local part; a     *)
(* registered prefix gives its namespace followed by the local part, an    *)
(* unknown prefix gives the prefix text itself followed by the local part  *)
(* (no error); a text without ":" is returned unchanged; "dct:title" with  *)
(* dct -> http://purl.org/dc/terms/ gives http://purl.org/dc/terms/title.  *)
(***************************************************************************)
C17_Expand ==
    Returned("expand") =>
        LET curie  == call.args[1]
            pref   == call.args[2]
            colons == {i \in 1..Len(curie) : curie[i] = ":"}
        IN  /\ colons = {} => call.ret = curie
            /\ colons # {} =>
                 LET i   == CHOOSE j \in colons : \A k \in colons : j <= k
                     pre == SubSeq(curie, 1, i - 1)
                     loc == SubSeq(curie, i + 1, Len(curie))
                 IN  /\ pre \in DOMAIN pref => call.ret = pref[pre] \o loc
                     /\ pre \notin DOMAIN pref => call.ret = pre \o loc
            /\ (curie = DctPrefix \o <<":", "t", "i", "t", "l", "e">>
                  /\ pref = DctPrefix :> DctNs)
                 => call.ret = DctNs \o <<"t", "i", "t", "l", "e">>

\* "dct:title" has been expanded with dct registered
C17_Witness ==
    /\ Returned("expand")
    /\ call.args = << DctPrefix \o <<":", "t", "i", "t", "l", "e">>, DctPrefix :> DctNs >>
    /\ call.ret = DctNs \o <<"t", "i", "t", "l", "e">>

(***************************************************************************)
(* C18: expanding an already-absolute identifier (one beginning with       *)
(* http:// or https:// whose scheme is not a registered prefix) returns it *)
(* unchanged, for every namespace table.                                   *)
(***************************************************************************)
C18_AsStated ==
    ( /\ Returned("expand")
      /\ StartsWith(call.args[1], HttpPrefix) \/ StartsWith(call.args[1], HttpsPrefix)
      /\ <<"h", "t", "t", "p">> \notin DOMAIN call.args[2]
      /\ <<"h", "t", "t", "p", "s">> \notin DOMAIN call.args[2] )
    => call.ret = call.args[1]

(***************************************************************************)
(* C19: safe is idempotent: safe(safe(x)) = safe(x) for every text x.      *)
(***************************************************************************)
C19_SafeIdempotent ==
    Returned("safe") => safe(call.ret) = call.ret

\* safe has changed its argument: "Año 2024!" has become "Ano_2024"
C19_Witness ==
    /\ Returned("safe")
    /\ call.args[1] = <<"A", "ntilde", "o", " ", "2", "0", "2", "4", "!">>
    /\ call.ret = <<"A", "n", "o", "_", "2", "0", "2", "4">>

(***************************************************************************)
(* C20: for every non-empty input text safe returns a non-empty token.     *)
(***************************************************************************)
C20_AsStated ==
    (Returned("safe") /\ call.args[1] # <<>>) => call.ret # <<>>

\* a text without its diacritics (the base letters stay) and without its
\* other non-ASCII characters
AsciiPart(text) ==
    ConcatAll([i \in 1..Len(text) |->
                 CASE text[i] = "ntilde" -> <<"n">>
                   [] text[i] = "euro"   -> <<>>
                   [] OTHER              -> <<text[i]>>])

\* the token the stated steps give: in the ASCII part of the text, every
\* maximal run of characters outside keep replaced by one underscore, and
\* the underscores at both ends trimmed
RunsReplaced(t, keep) ==
    ConcatAll([i \in 1..Len(t) |->
                 IF t[i] \in keep THEN <<t[i]>>
                 ELSE IF i > 1 /\ t[i - 1] \notin keep THEN <<>>
                 ELSE <<"_">>])

StatedToken(text, keep) ==
    LET r == RunsReplaced(AsciiPart(text), keep)
        inner == {i \in 1..Len(r) : r[i] # "_"}
    IN  IF inner = {} THEN <<>>
        ELSE SubSeq(r, CHOOSE i \in inner : \A j \in inner : i <= j,
                       CHOOSE i \in inner : \A j \in inner : j <= i)

\* the ASCII letters and digits of a text, and its word characters
Alphanumerics(text) ==
    {AsciiPart(text)[i] : i \in 1..Len(AsciiPart(text))} \ (Punct \cup {"_"})
WordCharacters(text) == Alphanumerics(text) \cup {"_"}

AdjacentUnderscores(r) == \E i \in 1..(Len(r) - 1) : r[i] = "_" /\ r[i + 1] = "_"

Example21 == <<"A", "ntilde", "o", " ", "2", "0", "2", "4", "!">>

(***************************************************************************)
(* C21 as stated: the token returned by safe is the input with diacritics  *)
(* and non-ASCII characters stripped, every maximal run of non-            *)
(* alphanumeric characters replaced by a single underscore and leading and *)
(* trailing underscores trimmed; the output contains only ASCII letters,   *)
(* digits and single, never adjacent, underscores, and "Año 2024!" gives   *)
(* "A_o_2024".                                                             *)
(***************************************************************************)
C21_AsStated ==
    Returned("safe") =>
        LET text == call.args[1]
        IN  /\ call.ret = StatedToken(text, Alphanumerics(text))
            /\ \A i \in 1..Len(call.ret) : call.ret[i] \in WordCharacters(text)
            /\ ~AdjacentUnderscores(call.ret)
            /\ text = Example21 => call.ret = <<"A", "_", "o", "_", "2", "0", "2", "4">>

(***************************************************************************)
(* C21, amended: the token returned by safe is the input with diacritics   *)
(* removed (the base letter kept) and other non-ASCII characters dropped,  *)
(* every maximal run of characters other than ASCII letters, digits and    *)
(* underscore replaced by a single underscore, and leading and trailing    *)
(* underscores trimmed; the output contains only ASCII letters, digits and *)
(* underscores and neither begins nor ends with an underscore; underscores *)
(* of the input are kept, so adjacent underscores can occur; "Año 2024!"   *)
(* gives "Ano_2024".                                                       *)
(***************************************************************************)
C21_SafeToken ==
    Returned("safe") =>
        LET text == call.args[1]
        IN  /\ call.ret = StatedToken(text, WordCharacters(text))
            /\ \A i \in 1..Len(call.ret) : call.ret[i] \in WordCharacters(text)
            /\ call.ret # <<>> => (Head(call.ret) # "_" /\ call.ret[Len(call.ret)] # "_")
            /\ text = Example21 => call.ret = <<"A", "n", "o", "_", "2", "0", "2", "4">>

\* an underscore of the input next to a run of punctuation: the token has
\* two adjacent underscores
C21_Witness ==
    /\ Returned("safe")
    /\ call.args[1] = <<"a", "_", "!", "b">>
    /\ call.ret = <<"a", "_", "_", "b">>

=============================================================================
